---- MODULE Spec2Model ----
(***************************************************************************)
(* Document text store of app/redis_client.py: put_doc_text, get_doc_text, *)
(* clear_doc, redis_healthy and build_chunks_from_redis over a Redis       *)
(* backend (keys with a time-to-live) and the in-process map DOC_STORE.    *)
(*                                                                         *)
(* Texts are sequences of Unicode code points, stored values are sequences *)
(* of bytes (0..255).  Each public function is one action: calls are       *)
(* serialised, and every backend call of a function may raise.  Further    *)
(* specifications run two threads of one process step by step, restart the  *)
(* process under another configuration, and model the upload route that    *)
(* stores a document through put_doc_text.                                 *)
(***************************************************************************)
EXTENDS Integers, Sequences, FiniteSets, TLC

VARIABLES
    REDIS,      \* TRUE: the client object exists (REDIS is not None)
    COMPRESS_THRESHOLD,  \* the compression threshold read from the environment
    _CHUNK_SIZE,         \* the chunk size read from the environment
    startup,    \* what initialisation met: the URL's scheme, the library, the ping
    pc,         \* per thread: where its call in progress stands
    kv,         \* the Redis keyspace: key -> [val, exp]; absent keys do not exist
    DOC_STORE,  \* the in-process fallback map: doc_id -> [ts, text]
    now,        \* the clock, in seconds
    last,       \* the call that ran last: its arguments, its result, what it did
    written,    \* per doc_id: the most recent put_doc_text not followed by clear_doc
    clean,      \* no backend call has failed, nothing has expired or been evicted
    faults,     \* the calls in which a backend call raised, and the evictions, so far
    documents   \* the rows insert_document has written

vars == <<documents, REDIS, COMPRESS_THRESHOLD, _CHUNK_SIZE, startup, pc, kv, DOC_STORE, now, last, written, clean, faults>>

---------------------------------------------------------------------------
(* Configuration.  The environment sets these; the values are scaled down  *)
(* so that both size boundaries are met by short texts.                    *)

DOC_TTL_SECONDS == 1
ThresholdBytes == 7     \* the value COMPRESS_THRESHOLD is set to
ChunkBytes == 4         \* the value _CHUNK_SIZE is set to
_MAX_SINGLE_KEY == 5

_MARKER_COMPRESSED == <<103, 122, 105, 112, 58>>    \* b"gzip:"
_META_SUFFIX == ":meta"

(* Bounds of the model. *)
MaxTime == 2
MaxProbe == 3       \* chunk indices 0..MaxProbe are inspected by the properties
MaxFaults == 1      \* calls with a raising backend call, and evictions, in one run

(* What a raising call and an absent key yield: neither is a byte string   *)
(* nor a text.                                                             *)
Fail == <<-1>>
None == <<-2>>

Min(a, b) == IF a < b THEN a ELSE b

---------------------------------------------------------------------------
(* str.encode("utf-8") and bytes.decode("utf-8") for code points < 2048.   *)

RECURSIVE Utf8Encode(_)
Utf8Encode(text) ==
    IF text = <<>> THEN <<>>
    ELSE LET cp == Head(text)
         IN  (IF cp < 128 THEN <<cp>>
              ELSE <<192 + (cp \div 64), 128 + (cp % 64)>>)
             \o Utf8Encode(Tail(text))

RECURSIVE Utf8Decode(_)
Utf8Decode(bytes) ==
    IF bytes = <<>> THEN <<>>
    ELSE IF bytes[1] < 128
         THEN LET r == Utf8Decode(Tail(bytes))
              IN  IF r = Fail THEN Fail ELSE <<bytes[1]>> \o r
    ELSE IF /\ bytes[1] \in 194..223
            /\ Len(bytes) >= 2
            /\ bytes[2] \in 128..191
         THEN LET r == Utf8Decode(SubSeq(bytes, 3, Len(bytes)))
              IN  IF r = Fail THEN Fail
                  ELSE <<(bytes[1] - 192) * 64 + (bytes[2] - 128)>> \o r
    ELSE Fail

(* bytes.decode("utf-8", errors="replace"): an undecodable byte becomes    *)
(* U+FFFD, written 65533 here.                                             *)
RECURSIVE Utf8DecodeReplace(_)
Utf8DecodeReplace(bytes) ==
    IF bytes = <<>> THEN <<>>
    ELSE IF bytes[1] < 128
         THEN <<bytes[1]>> \o Utf8DecodeReplace(Tail(bytes))
    ELSE IF /\ bytes[1] \in 194..223
            /\ Len(bytes) >= 2
            /\ bytes[2] \in 128..191
         THEN <<(bytes[1] - 192) * 64 + (bytes[2] - 128)>>
              \o Utf8DecodeReplace(SubSeq(bytes, 3, Len(bytes)))
    ELSE <<65533>> \o Utf8DecodeReplace(Tail(bytes))

---------------------------------------------------------------------------
(* gzip.compress / gzip.decompress.  The stream is the two magic bytes     *)
(* 0x1f 0x8b, a run-length body (count, byte)*, and the input length       *)
(* modulo 256 as trailer (ISIZE).  Decompression raises on a stream that   *)
(* lacks the magic, is cut short, or whose length does not match.          *)

RECURSIVE RunLen(_, _)
RunLen(data, b) ==
    IF data # <<>> /\ Head(data) = b THEN 1 + RunLen(Tail(data), b) ELSE 0

RECURSIVE Deflate(_)
Deflate(data) ==
    IF data = <<>> THEN <<>>
    ELSE LET n == RunLen(data, Head(data))
         IN  <<n, Head(data)>> \o Deflate(SubSeq(data, n + 1, Len(data)))

RECURSIVE Inflate(_)
Inflate(body) ==
    IF body = <<>> THEN <<>>
    ELSE IF Len(body) < 2 \/ body[1] < 1 THEN Fail
    ELSE LET r == Inflate(SubSeq(body, 3, Len(body)))
         IN  IF r = Fail THEN Fail
             ELSE [i \in 1..body[1] |-> body[2]] \o r

_gzip_compress_bytes(data) ==
    <<31, 139>> \o Deflate(data) \o <<Len(data) % 256>>

_gzip_decompress_bytes(data) ==
    IF Len(data) < 3 \/ data[1] # 31 \/ data[2] # 139 THEN Fail
    ELSE LET r == Inflate(SubSeq(data, 3, Len(data) - 1))
         IN  IF r = Fail \/ Len(r) % 256 # data[Len(data)] THEN Fail ELSE r

---------------------------------------------------------------------------
(* json.dumps(meta).encode("utf-8") and json.loads of the meta record:     *)
(* '{' chunks orig_bytes stored_bytes compressed '}'.                      *)

JsonDumps(meta) ==
    <<123, meta.chunks, meta.orig_bytes, meta.stored_bytes,
      IF meta.compressed THEN 1 ELSE 0, 125>>

JsonValid(bytes) ==
    /\ Len(bytes) = 6
    /\ bytes[1] = 123
    /\ bytes[6] = 125
    /\ bytes[5] \in {0, 1}

JsonLoads(bytes) ==
    [chunks |-> bytes[2], orig_bytes |-> bytes[3], stored_bytes |-> bytes[4],
     compressed |-> bytes[5] = 1]

---------------------------------------------------------------------------
(* Key names. *)

SingleKey(doc_id) == "doc:" \o doc_id
MetaKey(doc_id) == "doc:" \o doc_id \o _META_SUFFIX
ChunkKey(doc_id, i) == "doc:" \o doc_id \o ":chunk:" \o ToString(i)

---------------------------------------------------------------------------
(* Dictionaries: a function whose domain is the set of keys present.       *)

EmptyMap == [k \in {} |-> 0]
MapSet(m, k, v) == [x \in DOMAIN m \cup {k} |-> IF x = k THEN v ELSE m[x]]
MapDel(m, ks) == [x \in DOMAIN m \ ks |-> m[x]]

(* The Redis commands the client issues. *)
RedisGet(store, key) == IF key \in DOMAIN store THEN store[key].val ELSE None
RedisExists(store, key) == key \in DOMAIN store
(* Mutant of RedisSetex: the key lives twice the time-to-live given. *)
RedisSetexTwice(store, key, ttl, value) ==
    MapSet(store, key, [val |-> value, exp |-> now + ttl + ttl])

RedisSetex(store, key, ttl, value) ==
    MapSet(store, key, [val |-> value, exp |-> now + ttl])
RedisDelete(store, keys) == MapDel(store, keys)

(* The backend calls one function call can issue, and the queued pipeline *)
(* commands that can have taken effect when execute() raises.             *)
MaxCalls == 6
MaxApplied == 3

---------------------------------------------------------------------------
(* put_doc_text *)

(* Mutant of IdRejected: the guard on the identifier is missing. *)
IdRejectedNever(doc_id) == FALSE

IdRejected(doc_id) == doc_id = ""

(* Mutant of ShouldCompress: a text of exactly the threshold stays raw. *)
ShouldCompressAbove(size) == COMPRESS_THRESHOLD # 0 /\ size > COMPRESS_THRESHOLD

ShouldCompress(size) == COMPRESS_THRESHOLD # 0 /\ size >= COMPRESS_THRESHOLD

(* Mutant of FitsSingleKey: a payload of exactly _MAX_SINGLE_KEY bytes is   *)
(* chunked.                                                                *)
FitsSingleKeyBelow(to_store) == Len(to_store) < _MAX_SINGLE_KEY

FitsSingleKey(to_store) == Len(to_store) <= _MAX_SINGLE_KEY

SinglePayload(to_store, compressed) ==
    IF compressed THEN _MARKER_COMPRESSED \o to_store ELSE to_store

(* Mutant of ChunkCount: the division rounds down, a shorter last chunk is *)
(* not counted.                                                            *)
ChunkCountFloor(stored_len) == stored_len \div _CHUNK_SIZE

ChunkCount(stored_len) == (stored_len + _CHUNK_SIZE - 1) \div _CHUNK_SIZE

(* Mutant of ChunkSlice: the slice runs one byte into the next chunk. *)
ChunkSliceOverlap(gz_bytes, i) ==
    SubSeq(gz_bytes, i * _CHUNK_SIZE + 1,
           Min(i * _CHUNK_SIZE + _CHUNK_SIZE + 1, Len(gz_bytes)))

ChunkSlice(gz_bytes, i) ==
    SubSeq(gz_bytes, i * _CHUNK_SIZE + 1,
           Min(i * _CHUNK_SIZE + _CHUNK_SIZE, Len(gz_bytes)))

(* Mutant of PipelineCommands: the meta record is queued first. *)
PipelineCommandsMetaFirst(doc_id, gz_bytes, size, compressed) ==
    LET n_chunks == ChunkCount(Len(gz_bytes))
        meta == [chunks |-> n_chunks, orig_bytes |-> size,
                 stored_bytes |-> Len(gz_bytes), compressed |-> compressed]
    IN  <<[key |-> MetaKey(doc_id), value |-> JsonDumps(meta)]>>
        \o [i \in 1..n_chunks |->
              [key |-> ChunkKey(doc_id, i - 1), value |-> ChunkSlice(gz_bytes, i - 1)]]

(* The commands queued on the pipeline, in order: the chunks, then meta.   *)
PipelineCommands(doc_id, gz_bytes, size, compressed) ==
    LET n_chunks == ChunkCount(Len(gz_bytes))
        meta == [chunks |-> n_chunks, orig_bytes |-> size,
                 stored_bytes |-> Len(gz_bytes), compressed |-> compressed]
    IN  [i \in 1..n_chunks |->
            [key |-> ChunkKey(doc_id, i - 1), value |-> ChunkSlice(gz_bytes, i - 1)]]
        \o <<[key |-> MetaKey(doc_id), value |-> JsonDumps(meta)]>>

RECURSIVE ApplyCommands(_, _, _)
ApplyCommands(store, cmds, k) ==
    IF k = 0 THEN store
    ELSE RedisSetex(ApplyCommands(store, cmds, k - 1),
                    cmds[k].key, DOC_TTL_SECONDS, cmds[k].value)

(* Mutant of StoreFallback: the handler of the chunked path only logs. *)
StoreFallbackDropped(ds, doc_id, text) == ds

(* Line 173, in the handler of the chunked path. *)
StoreFallback(ds, doc_id, text) ==
    MapSet(ds, doc_id, [ts |-> now, text |-> text])

(* Mutant of Compressed: the flag is set before the compression is tried. *)
CompressedFlagFirst(size, gzipRaises) == ShouldCompress(size)

(* compressed after the try block of lines 122-129: set only once          *)
(* _gzip_compress_bytes has returned.                                      *)
Compressed(size, gzipRaises) == ShouldCompress(size) /\ ~gzipRaises

(* The effect of put_doc_text(doc_id, text).  gzipRaises: compression      *)
(* raises.  F: the backend calls that raise.  applied: how many queued     *)
(* commands took effect when pipeline.execute() raised.                    *)
PutEffect(doc_id, text, gzipRaises, F, applied) ==
    LET raw_bytes == Utf8Encode(text)
        size == Len(raw_bytes)
        compressed == Compressed(size, gzipRaises)
        to_store == IF ShouldCompress(size) /\ ~gzipRaises
                    THEN _gzip_compress_bytes(raw_bytes) ELSE raw_bytes
        same == [kv |-> kv, ds |-> DOC_STORE]
    IN
    IF IdRejected(doc_id)
    THEN same @@ [ret |-> FALSE, calls |-> 0, ok |-> TRUE, form |-> "none",
                  queued |-> 0]
    ELSE IF ~REDIS
    THEN [kv |-> kv, ds |-> MapSet(DOC_STORE, doc_id, [ts |-> now, text |-> text]),
          ret |-> TRUE, calls |-> 0, ok |-> TRUE, form |-> "fallback",
          queued |-> 0]
    ELSE IF FitsSingleKey(to_store) /\ 1 \notin F
    THEN LET stored == RedisSetex(kv, SingleKey(doc_id), DOC_TTL_SECONDS,
                                  SinglePayload(to_store, compressed))
         IN  [kv |-> IF 2 \in F THEN stored
                     ELSE RedisDelete(stored, {MetaKey(doc_id)}),
              ds |-> DOC_STORE,
              ret |-> TRUE, calls |-> 2, ok |-> 2 \notin F, form |-> "single",
              queued |-> 0]
    ELSE LET before == IF FitsSingleKey(to_store) THEN 1 ELSE 0
             cmds == PipelineCommands(doc_id, to_store, size, compressed)
             raised == (before + 1) \in F
         IN  IF ~raised
             THEN [kv |-> ApplyCommands(kv, cmds, Len(cmds)),
                   ds |-> DOC_STORE,
                   ret |-> TRUE, calls |-> before + 1, ok |-> before = 0,
                   form |-> "chunked", queued |-> Len(cmds)]
             ELSE [kv |-> ApplyCommands(kv, cmds, Min(applied, Len(cmds))),
                   ds |-> StoreFallback(DOC_STORE, doc_id, text),
                   ret |-> TRUE, calls |-> before + 1, ok |-> FALSE,
                   form |-> "fallback", queued |-> Len(cmds)]

---------------------------------------------------------------------------
(* _decode_redis_value and get_doc_text *)

StartsWith(bytes, prefix) ==
    Len(bytes) >= Len(prefix) /\ SubSeq(bytes, 1, Len(prefix)) = prefix

(* A value found under doc:{id}: gunzip after the marker, else, or when    *)
(* that raises, the bytes as UTF-8; "" when they are not UTF-8.            *)
DecodeSingle(raw_bytes) ==
    LET gz == SubSeq(raw_bytes, Len(_MARKER_COMPRESSED) + 1, Len(raw_bytes))
        decompressed == IF StartsWith(raw_bytes, _MARKER_COMPRESSED)
                        THEN _gzip_decompress_bytes(gz) ELSE Fail
        viaGzip == IF decompressed = Fail THEN Fail ELSE Utf8Decode(decompressed)
        plain == Utf8Decode(raw_bytes)
    IN  IF viaGzip # Fail THEN viaGzip
        ELSE IF plain # Fail THEN plain
        ELSE <<>>

(* Mutant of JoinChunks: each chunk is cut to the reader's _CHUNK_SIZE. *)
RECURSIVE JoinChunksBySize(_, _, _, _)
JoinChunksBySize(store, doc_id, n, F) ==
    IF n = 0 THEN <<>>
    ELSE LET head == JoinChunksBySize(store, doc_id, n - 1, F)
             c == RedisGet(store, ChunkKey(doc_id, n - 1))
         IN  IF head = Fail \/ (n + 2) \in F \/ c = None THEN Fail
             ELSE head \o SubSeq(c, 1, Min(_CHUNK_SIZE, Len(c)))

(* The chunk loop of the chunked branch: chunk i is read by backend call   *)
(* 3 + i.  Yields the joined bytes, or Fail on a missing chunk or a        *)
(* raising read.                                                           *)
RECURSIVE JoinChunks(_, _, _, _)
JoinChunks(store, doc_id, n, F) ==
    IF n = 0 THEN <<>>
    ELSE LET head == JoinChunks(store, doc_id, n - 1, F)
             c == RedisGet(store, ChunkKey(doc_id, n - 1))
         IN  IF head = Fail \/ (n + 2) \in F \/ c = None THEN Fail
             ELSE head \o c

(* The number of backend reads the chunk loop issues before it stops. *)
RECURSIVE ChunkReads(_, _, _, _, _)
ChunkReads(store, doc_id, i, n, F) ==
    IF i >= n THEN 0
    ELSE IF (i + 3) \in F \/ RedisGet(store, ChunkKey(doc_id, i)) = None THEN 1
    ELSE 1 + ChunkReads(store, doc_id, i + 1, n, F)

(* The chunked branch of _decode_redis_value (raw_val is None). *)
DecodeChunked(store, doc_id, F) ==
    LET meta_raw == RedisGet(store, MetaKey(doc_id))
        meta == JsonLoads(meta_raw)
        gz_all == JoinChunks(store, doc_id, meta.chunks, F)
        raw == IF meta.compressed THEN _gzip_decompress_bytes(gz_all) ELSE gz_all
        text == IF raw = Fail THEN Fail ELSE Utf8Decode(raw)
    IN  IF 2 \in F THEN <<>>
        ELSE IF meta_raw = None \/ meta_raw = <<>> THEN <<>>
        ELSE IF ~JsonValid(meta_raw) THEN <<>>
        ELSE IF gz_all = Fail \/ text = Fail THEN <<>>
        ELSE text

(* Mutant of RemoteRead: the meta key is read before the single key. *)
RemoteReadMetaFirst(store, doc_id, F) ==
    LET raw == RedisGet(store, SingleKey(doc_id))
        c == DecodeChunked(store, doc_id, F)
    IN  IF c # <<>> THEN [text |-> c, calls |-> 2, ok |-> TRUE]
        ELSE [text |-> IF raw = None THEN <<>> ELSE DecodeSingle(raw),
              calls |-> 2, ok |-> TRUE]

(* What the Redis tier of get_doc_text yields, with its backend calls. *)
RemoteRead(store, doc_id, F) ==
    LET raw == RedisGet(store, SingleKey(doc_id))
        meta_raw == RedisGet(store, MetaKey(doc_id))
        metaOk == 2 \notin F /\ meta_raw # None /\ meta_raw # <<>>
                  /\ JsonValid(meta_raw)
        reads == IF metaOk
                 THEN ChunkReads(store, doc_id, 0, JsonLoads(meta_raw).chunks, F)
                 ELSE 0
    IN  IF 1 \in F THEN [text |-> <<>>, calls |-> 1, ok |-> FALSE]
        ELSE IF raw # None THEN [text |-> DecodeSingle(raw), calls |-> 1, ok |-> TRUE]
        ELSE [text |-> DecodeChunked(store, doc_id, F),
              calls |-> 2 + reads,
              ok |-> (1..(2 + reads)) \cap F = {}]

(* Mutant of FallbackExpired: an entry never expires. *)
FallbackExpiredNever(ts) == FALSE

(* Mutant of FallbackExpired: an entry expires one second early. *)
FallbackExpiredEarly(ts) == now - ts >= DOC_TTL_SECONDS

FallbackExpired(ts) == now - ts > DOC_TTL_SECONDS

(* The effect of get_doc_text(doc_id). *)
GetEffect(doc_id, F) ==
    LET remote == IF REDIS THEN RemoteRead(kv, doc_id, F)
                  ELSE [text |-> <<>>, calls |-> 0, ok |-> TRUE]
    IN
    IF IdRejected(doc_id)
    THEN [ds |-> DOC_STORE, result |-> <<>>, calls |-> 0, ok |-> TRUE]
    ELSE IF remote.text # <<>>
    THEN [ds |-> DOC_STORE, result |-> remote.text,
          calls |-> remote.calls, ok |-> remote.ok]
    ELSE IF doc_id \notin DOMAIN DOC_STORE
    THEN [ds |-> DOC_STORE, result |-> <<>>,
          calls |-> remote.calls, ok |-> remote.ok]
    ELSE IF FallbackExpired(DOC_STORE[doc_id].ts)
    THEN [ds |-> MapDel(DOC_STORE, {doc_id}), result |-> <<>>,
          calls |-> remote.calls, ok |-> remote.ok]
    ELSE [ds |-> DOC_STORE, result |-> DOC_STORE[doc_id].text,
          calls |-> remote.calls, ok |-> remote.ok]

---------------------------------------------------------------------------
(* clear_doc *)

(* The probing loop: delete chunk i, i+1, .. until a delete removes        *)
(* nothing; the delete of chunk i is backend call c.                       *)
RECURSIVE ProbeDelete(_, _, _, _, _)
ProbeDelete(store, doc_id, i, c, F) ==
    IF c \in F THEN [kv |-> store, calls |-> c, raised |-> TRUE]
    ELSE IF ~RedisExists(store, ChunkKey(doc_id, i))
    THEN [kv |-> store, calls |-> c, raised |-> FALSE]
    ELSE ProbeDelete(RedisDelete(store, {ChunkKey(doc_id, i)}), doc_id, i + 1, c + 1, F)

(* The Redis part of clear_doc. *)
ClearRemote(store, doc_id, F) ==
    LET meta_key == MetaKey(doc_id)
        noSingle == RedisDelete(store, {SingleKey(doc_id)})
        meta_raw == RedisGet(noSingle, meta_key)
        parsed == Utf8Decode(meta_raw) # Fail /\ JsonValid(meta_raw)
        cnt == JsonLoads(meta_raw).chunks
        keys == {ChunkKey(doc_id, i) : i \in 0..(cnt - 1)}
        listed == parsed /\ (keys = {} \/ 3 \notin F)
        afterList ==
            IF keys = {} THEN [kv |-> noSingle, calls |-> 2, raised |-> FALSE]
            ELSE [kv |-> RedisDelete(noSingle, keys), calls |-> 3, raised |-> FALSE]
        probed == ProbeDelete(noSingle, doc_id, 0, IF parsed THEN 4 ELSE 3, F)
        chunksGone == IF listed THEN afterList ELSE probed
    IN
    IF 1 \in F THEN [kv |-> store, calls |-> 1, raised |-> TRUE]
    ELSE IF 2 \in F THEN [kv |-> noSingle, calls |-> 2, raised |-> TRUE]
    ELSE IF meta_raw = None \/ meta_raw = <<>>
    THEN [kv |-> noSingle, calls |-> 2, raised |-> FALSE]
    ELSE IF chunksGone.raised THEN chunksGone
    ELSE IF (chunksGone.calls + 1) \in F
    THEN [kv |-> chunksGone.kv, calls |-> chunksGone.calls + 1, raised |-> TRUE]
    ELSE [kv |-> RedisDelete(chunksGone.kv, {meta_key}),
          calls |-> chunksGone.calls + 1, raised |-> FALSE]

(* Mutant of PopFallback: the fallback entry is left in place. *)
PopFallbackSkipped(ds, doc_id) == ds

(* if doc_id in DOC_STORE: DOC_STORE.pop(doc_id, None) *)
PopFallback(ds, doc_id) == MapDel(ds, {doc_id})

(* Mutant of ClearResult: clear_doc reports success whatever happened. *)
ClearResultAlways(raised) == TRUE

(* success: False once the handler of lines 295-297 has run. *)
ClearResult(raised) == ~raised

(* The effect of clear_doc(doc_id). *)
ClearEffect(doc_id, F) ==
    LET remote == IF REDIS THEN ClearRemote(kv, doc_id, F)
                  ELSE [kv |-> kv, calls |-> 0, raised |-> FALSE]
    IN
    IF IdRejected(doc_id)
    THEN [kv |-> kv, ds |-> DOC_STORE, ret |-> FALSE, calls |-> 0, ok |-> TRUE]
    ELSE [kv |-> remote.kv,
          ds |-> PopFallback(DOC_STORE, doc_id),
          ret |-> ClearResult(remote.raised),
          calls |-> remote.calls,
          ok |-> (1..remote.calls) \cap F = {}]

---------------------------------------------------------------------------
(* redis_healthy *)

(* Mutant of HealthEffect: the reply of the ping is not looked at. *)
HealthEffectConfigured(pingOk) == REDIS

HealthEffect(pingOk) == REDIS /\ pingOk

---------------------------------------------------------------------------
(* build_chunks_from_redis *)

preview_chars == 3

IsSpace(cp) == cp \in {9, 10, 13, 32}

(* len(preview.split()) *)
WordCount(text) ==
    Cardinality({i \in 1..Len(text) :
                    ~IsSpace(text[i]) /\ (i = 1 \/ IsSpace(text[i - 1]))})

Prefix(seq, n) == SubSeq(seq, 1, Min(n, Len(seq)))

(* A chunk descriptor; text_preview None and token_count -1 stand for      *)
(* Python's None.                                                          *)
Descriptor(index, key, stored_bytes, preview, token_count) ==
    [chunk_index |-> index, redis_key |-> key, stored_bytes |-> stored_bytes,
     text_preview |-> preview, token_count |-> token_count]

SingleDescriptor(doc_id, raw) ==
    LET gz == SubSeq(raw, Len(_MARKER_COMPRESSED) + 1, Len(raw))
        dec == _gzip_decompress_bytes(gz)
        preview == IF StartsWith(raw, _MARKER_COMPRESSED)
                   THEN (IF dec = Fail THEN None
                         ELSE Utf8DecodeReplace(Prefix(dec, preview_chars)))
                   ELSE Utf8DecodeReplace(Prefix(raw, preview_chars))
        token_count == IF preview = None THEN -1
                       ELSE IF StartsWith(raw, _MARKER_COMPRESSED) \/ preview # <<>>
                       THEN WordCount(preview)
                       ELSE -1
    IN  Descriptor(0, SingleKey(doc_id), Len(raw), preview, token_count)

(* Mutant of ChunkDescriptor: chunk_index counts from 1. *)
ChunkDescriptorOneBased(store, doc_id, i) ==
    LET key == ChunkKey(doc_id, i)
        val == RedisGet(store, key)
        preview == IF val = None \/ val = <<>> THEN None
                   ELSE Utf8DecodeReplace(Prefix(val, preview_chars))
    IN  Descriptor(i + 1, key, IF val = None THEN 0 ELSE Len(val), preview,
                   IF preview = None \/ preview = <<>> THEN -1
                   ELSE WordCount(preview))

ChunkDescriptor(store, doc_id, i) ==
    LET key == ChunkKey(doc_id, i)
        val == RedisGet(store, key)
        preview == IF val = None \/ val = <<>> THEN None
                   ELSE Utf8DecodeReplace(Prefix(val, preview_chars))
    IN  Descriptor(i, key, IF val = None THEN 0 ELSE Len(val), preview,
                   IF preview = None \/ preview = <<>> THEN -1
                   ELSE WordCount(preview))

(* while REDIS.exists(chunk:n): n += 1 -- the exists on index n is backend *)
(* call c.                                                                 *)
RECURSIVE ProbeExists(_, _, _, _, _)
ProbeExists(store, doc_id, n, c, F) ==
    IF c \in F THEN [n |-> n, calls |-> c, raised |-> TRUE]
    ELSE IF ~RedisExists(store, ChunkKey(doc_id, n))
    THEN [n |-> n, calls |-> c, raised |-> FALSE]
    ELSE ProbeExists(store, doc_id, n + 1, c + 1, F)

(* The effect of build_chunks_from_redis(doc_id): the list returned. *)
BuildEffect(doc_id, F) ==
    LET prefix == SingleKey(doc_id)
        raw == RedisGet(kv, prefix)
        meta_raw == RedisGet(kv, MetaKey(doc_id))
        hasMeta == meta_raw # None /\ meta_raw # <<>>
        probe == ProbeExists(kv, doc_id, 0, 4, F)
        n_chunks == IF hasMeta
                    THEN (IF Utf8Decode(meta_raw) # Fail /\ JsonValid(meta_raw)
                          THEN JsonLoads(meta_raw).chunks ELSE 0)
                    ELSE probe.n
        first == IF hasMeta THEN 3 ELSE probe.calls + 1
        total == first + n_chunks - 1
        none == [out |-> <<>>]
    IN
    IF IdRejected(doc_id) \/ ~REDIS THEN none @@ [calls |-> 0, ok |-> TRUE]
    ELSE IF 1 \in F THEN none @@ [calls |-> 1, ok |-> FALSE]
    ELSE IF raw # None
    THEN [out |-> <<SingleDescriptor(doc_id, raw)>>, calls |-> 1, ok |-> TRUE]
    ELSE IF 2 \in F THEN none @@ [calls |-> 2, ok |-> FALSE]
    ELSE IF ~hasMeta /\ 3 \in F THEN none @@ [calls |-> 3, ok |-> FALSE]
    ELSE IF ~hasMeta /\ ~RedisExists(kv, ChunkKey(doc_id, 0))
    THEN none @@ [calls |-> 3, ok |-> TRUE]
    ELSE IF ~hasMeta /\ probe.raised THEN none @@ [calls |-> probe.calls, ok |-> FALSE]
    ELSE IF \E c \in first..total : c \in F
    THEN none @@ [calls |-> CHOOSE c \in first..total :
                                c \in F /\ \A d \in first..(c - 1) : d \notin F,
                  ok |-> FALSE]
    ELSE [out |-> [j \in 1..n_chunks |-> ChunkDescriptor(kv, doc_id, j - 1)],
          calls |-> total, ok |-> TRUE]

(* What one backend call does to the keyspace: get and exists leave every  *)
(* key, value and time-to-live as they are.                                *)
RedisCall(store, c) ==
    CASE c.op = "get" -> store
      [] c.op = "exists" -> store
      [] c.op = "delete" -> RedisDelete(store, {c.key})
      [] OTHER -> store

RECURSIVE RedisCalls(_, _, _)
RedisCalls(store, cs, k) ==
    IF k = 0 THEN store ELSE RedisCall(RedisCalls(store, cs, k - 1), cs[k])

(* Mutant of GetCalls: a single key read is deleted after the read. *)
GetCallsDeleting(doc_id, F) ==
    LET n == GetEffect(doc_id, F).calls
    IN  [j \in 1..n |->
            [op |-> IF j = 1 THEN "delete" ELSE "get",
             key |-> IF j = 1 THEN SingleKey(doc_id)
                     ELSE IF j = 2 THEN MetaKey(doc_id)
                     ELSE ChunkKey(doc_id, j - 3)]]

(* The backend calls get_doc_text(doc_id) issues, in order: the get of the *)
(* single key, of the meta key and of chunk 0, 1, ..; cut where the        *)
(* function stops reading or a call raises.                                *)
GetCalls(doc_id, F) ==
    LET n == GetEffect(doc_id, F).calls
    IN  [j \in 1..n |->
            [op |-> "get",
             key |-> IF j = 1 THEN SingleKey(doc_id)
                     ELSE IF j = 2 THEN MetaKey(doc_id)
                     ELSE ChunkKey(doc_id, j - 3)]]

(* Mutant of BuildCalls: the meta key is deleted, as put_doc_text does     *)
(* with a stale one, instead of read.                                      *)
BuildCallsDeleting(doc_id, F) ==
    LET n == BuildEffect(doc_id, F).calls
    IN  [j \in 1..n |->
            IF j = 1 THEN [op |-> "get", key |-> SingleKey(doc_id)]
            ELSE [op |-> "delete", key |-> MetaKey(doc_id)]]

(* The backend calls build_chunks_from_redis(doc_id) issues, in order: the *)
(* get of the single key, the get of the meta key, without a meta record   *)
(* the exists of chunk 0 and of chunk 0, 1, .. until one is absent, then   *)
(* the get of every chunk; cut where the function returns or a call        *)
(* raises.                                                                 *)
BuildCalls(doc_id, F) ==
    LET meta_raw == RedisGet(kv, MetaKey(doc_id))
        hasMeta == meta_raw # None /\ meta_raw # <<>>
        probe == ProbeExists(kv, doc_id, 0, 4, F)
        n_chunks == IF hasMeta
                    THEN (IF Utf8Decode(meta_raw) # Fail /\ JsonValid(meta_raw)
                          THEN JsonLoads(meta_raw).chunks ELSE 0)
                    ELSE probe.n
        probes == IF hasMeta THEN <<>>
                  ELSE <<[op |-> "exists", key |-> ChunkKey(doc_id, 0)]>>
                       \o [j \in 1..(probe.n + 1) |->
                              [op |-> "exists", key |-> ChunkKey(doc_id, j - 1)]]
        all == <<[op |-> "get", key |-> SingleKey(doc_id)],
                 [op |-> "get", key |-> MetaKey(doc_id)]>>
               \o probes
               \o [j \in 1..n_chunks |->
                      [op |-> "get", key |-> ChunkKey(doc_id, j - 1)]]
    IN  Prefix(all, BuildEffect(doc_id, F).calls)

---------------------------------------------------------------------------
(* The inputs: identifiers and texts. *)

DocIds == {"", "d1"}

Empty == <<>>                                         \* ""
Small == <<104, 233>>                                 \* "hé": 3 bytes, raw, single key
MarkerText == <<103, 122, 105, 112, 58>>              \* "gzip:": 5 bytes = _MAX_SINGLE_KEY, raw
RawChunked == <<97, 98, 99, 233, 100>>                \* 6 bytes = _MAX_SINGLE_KEY + 1, raw, 2 chunks
GzSingle == <<97, 97, 97, 97, 97, 97, 97>>            \* 7 bytes = COMPRESS_THRESHOLD, gzip 5 bytes
GzChunked == <<97, 97, 97, 97, 97, 97, 97, 98>>       \* 8 bytes, gzip 7 bytes, 2 chunks
RawOther == <<120, 121, 122, 233, 119>>               \* 6 bytes, raw, 2 chunks, other bytes than RawChunked
GzGrows == <<97, 97, 97, 97, 97, 98, 99>>             \* 7 bytes, gzip 9 bytes, 3 chunks

Texts == {Empty, Small, MarkerText, RawChunked, GzSingle, GzChunked}

(* The texts put when backend calls may raise: one per storage path. *)
FaultTexts == {Empty, Small, RawChunked}

KeysOf(doc_id) ==
    {SingleKey(doc_id), MetaKey(doc_id)}
    \cup {ChunkKey(doc_id, i) : i \in 0..MaxProbe}

(* Nothing is stored for doc_id, neither in Redis nor in DOC_STORE. *)
Fresh(doc_id) ==
    KeysOf(doc_id) \cap DOMAIN kv = {} /\ doc_id \notin DOMAIN DOC_STORE

(* What is known of the calls made for one doc_id: the most recent         *)
(* put_doc_text or clear_doc.                                              *)
(*   state     "never", "put" or "cleared"                                 *)
(*   text, ts  the text of that put (after a clear_doc: of the put it       *)
(*             cleared) and when the call ran                              *)
(*   ret, ok   what that call returned; whether all its backend calls      *)
(*             succeeded                                                   *)
(*   fresh     nothing was stored for doc_id when that put began           *)
(*   form      the form that put wrote; prevForm: the form of the put      *)
(*             before it, "none" if a clear_doc or nothing came between    *)
(*   quiet     since that call nothing expired and nothing was evicted     *)
(*   gzipRaised  compression raised in that put                            *)
(*   again     that clear_doc followed a clear_doc with no put between;    *)
(*             againOk: one whose backend calls all succeeded              *)
NoPut ==
    [state |-> "never", text |-> <<>>, ts |-> 0, ret |-> FALSE, ok |-> FALSE,
     fresh |-> FALSE, form |-> "none", prevForm |-> "none", quiet |-> FALSE,
     again |-> FALSE, againOk |-> FALSE, gzipRaised |-> FALSE]

(* The backend operations the body of a public function issues, and those *)
(* issued inside a try block whose handler does not re-raise.              *)
Issued(op) ==
    CASE op = "put" -> {"setex", "delete", "pipeline", "execute"}
      [] op = "get" -> {"get"}
      [] op = "clear" -> {"delete", "get"}
      [] op = "health" -> {"ping"}
      [] op = "build" -> {"get", "exists"}
      [] OTHER -> {}

(* Mutant of Absorbed: the delete of the stale meta key is not guarded. *)
AbsorbedButDelete(op) ==
    CASE op = "put" -> {"setex", "pipeline", "execute"}
      [] op = "get" -> {"get"}
      [] op = "clear" -> {"delete", "get"}
      [] op = "health" -> {"ping"}
      [] op = "build" -> {"get", "exists"}
      [] OTHER -> {}

Absorbed(op) ==
    CASE op = "put" -> {"setex", "delete", "pipeline", "execute"}
      [] op = "get" -> {"get"}
      [] op = "clear" -> {"delete", "get"}
      [] op = "health" -> {"ping"}
      [] op = "build" -> {"get", "exists"}
      [] OTHER -> {}

(* The record of a call: what it returned and what it did; escaped: a      *)
(* backend operation raised where no handler absorbs it.                   *)
Call(op, doc_id, ret, result, out, calls, ok, kvNew, dsNew) ==
    [op |-> op, id |-> doc_id, ret |-> ret, result |-> result, out |-> out,
     calls |-> calls, ok |-> ok,
     kvChanged |-> kvNew # kv, dsChanged |-> dsNew # DOC_STORE,
     escaped |-> ~ok /\ (Issued(op) \ Absorbed(op)) # {}]

(* Which backend calls of one function call raise: none, one of the first  *)
(* n, or every call from some point on (an outage).  Calls are numbered    *)
(* 1, 2, .. in the order the function issues them.                         *)
FailureSets(n) ==
    {{}} \cup {{k} : k \in 1..n} \cup {k..n : k \in 1..n}

(* A call whose backend calls all succeed runs whenever it is called; one  *)
(* in which a backend call raises counts against MaxFaults.  A failure set *)
(* that raises in no call the function issues is the empty one.            *)
Faulty(F, ok) ==
    /\ (F = {} \/ ~ok)
    /\ (ok \/ faults < MaxFaults)
    /\ faults' = IF ok THEN faults ELSE faults + 1

(* Initialisation of the client (REDIS_URL, urlparse, from_url, ping).  A   *)
(* start is the scheme of REDIS_URL ("" when the URL is empty), whether    *)
(* the redis package was imported, and what the ping did.                  *)
Schemes == {"", "http", "redis", "rediss"}
Pings == {"ok", "falsy", "raises"}
AllStartups == [url : Schemes, lib : BOOLEAN, ping : Pings]

(* Mutant of InitRedis: the reply of the ping is not looked at. *)
InitRedisNoPing(s) == s.url # "" /\ s.url \in {"redis", "rediss"} /\ s.lib

(* REDIS is not None after initialisation. *)
InitRedis(s) ==
    /\ s.url # ""
    /\ s.url \in {"redis", "rediss"}
    /\ s.lib
    /\ s.ping = "ok"

NoUrl == [url |-> "", lib |-> TRUE, ping |-> "ok"]
Connected == [url |-> "redis", lib |-> TRUE, ping |-> "ok"]

(* The threads of the process and their calls in progress: none outside    *)
(* the specification of concurrent calls.                                  *)
Threads == {"w", "r"}
Idle == [t \in Threads |-> [at |-> "idle"]]

Init ==
    /\ startup \in {NoUrl, Connected}
    /\ REDIS = InitRedis(startup)
    /\ COMPRESS_THRESHOLD = ThresholdBytes
    /\ _CHUNK_SIZE = ChunkBytes
    /\ pc = Idle
    /\ kv = EmptyMap
    /\ DOC_STORE = EmptyMap
    /\ now = 0
    /\ last = [op |-> "init", id |-> "", ret |-> TRUE, result |-> <<>>,
               out |-> <<>>, calls |-> 0, ok |-> TRUE,
               kvChanged |-> FALSE, dsChanged |-> FALSE, escaped |-> FALSE]
    /\ written = [d \in DocIds |-> NoPut]
    /\ clean = TRUE
    /\ faults = 0
    /\ documents = {}

PutDocText(doc_id, text, gzipRaises, F, applied) ==
    LET e == PutEffect(doc_id, text, gzipRaises, F, applied)
    IN  /\ F # {} => (REDIS /\ faults < MaxFaults /\ ~IdRejected(doc_id))
        /\ gzipRaises => (ShouldCompress(Len(Utf8Encode(text))) /\ ~IdRejected(doc_id))
        /\ applied > 0 => (F # {} /\ e.form = "fallback" /\ applied <= e.queued)
        /\ Faulty(F, e.ok)
        /\ kv' = e.kv
        /\ DOC_STORE' = e.ds
        /\ last' = Call("put", doc_id, e.ret, <<>>, <<>>, e.calls, e.ok, e.kv, e.ds)
        /\ written' = IF IdRejected(doc_id) THEN written
                      ELSE [written EXCEPT ![doc_id] =
                               [state |-> "put", text |-> text, ts |-> now,
                                ret |-> e.ret, ok |-> e.ok, fresh |-> Fresh(doc_id),
                                form |-> e.form, prevForm |-> written[doc_id].form,
                                quiet |-> TRUE, again |-> FALSE, againOk |-> FALSE,
                                gzipRaised |-> gzipRaises]]
        /\ clean' = (clean /\ e.ok)
        /\ UNCHANGED <<documents, REDIS, COMPRESS_THRESHOLD, _CHUNK_SIZE, startup, pc, now>>

GetDocText(doc_id, F) ==
    LET e == GetEffect(doc_id, F)
        cs == GetCalls(doc_id, F)
        kvNew == RedisCalls(kv, cs, Len(cs))
    IN  /\ F # {} => (REDIS /\ faults < MaxFaults /\ ~IdRejected(doc_id))
        /\ Faulty(F, e.ok)
        /\ kv' = kvNew
        /\ DOC_STORE' = e.ds
        /\ last' = Call("get", doc_id, TRUE, e.result, <<>>, e.calls, e.ok, kvNew, e.ds)
        /\ clean' = (clean /\ e.ok)
        /\ UNCHANGED <<documents, REDIS, COMPRESS_THRESHOLD, _CHUNK_SIZE, startup, pc, now, written>>

ClearDoc(doc_id, F) ==
    LET e == ClearEffect(doc_id, F)
        w == written[doc_id]
    IN  /\ F # {} => (REDIS /\ faults < MaxFaults /\ ~IdRejected(doc_id))
        /\ Faulty(F, e.ok)
        /\ kv' = e.kv
        /\ DOC_STORE' = e.ds
        /\ last' = Call("clear", doc_id, e.ret, <<>>, <<>>, e.calls, e.ok, e.kv, e.ds)
        /\ written' = IF IdRejected(doc_id) THEN written
                      ELSE [written EXCEPT ![doc_id] =
                               [NoPut EXCEPT !.state = "cleared", !.ts = now,
                                             !.text = w.text,
                                             !.ret = e.ret, !.ok = e.ok,
                                             !.quiet = TRUE,
                                             !.again = (w.state = "cleared"),
                                             !.againOk = (w.state = "cleared"
                                                          /\ w.ok)]]
        /\ clean' = (clean /\ e.ok)
        /\ UNCHANGED <<documents, REDIS, COMPRESS_THRESHOLD, _CHUNK_SIZE, startup, pc, now>>

RedisHealthy(pingOk) ==
    /\ ~pingOk => REDIS
    /\ Faulty(IF pingOk THEN {} ELSE {1}, pingOk)
    /\ last' = Call("health", "", HealthEffect(pingOk), <<>>, <<>>,
                    IF REDIS THEN 1 ELSE 0, pingOk, kv, DOC_STORE)
    /\ clean' = (clean /\ pingOk)
    /\ UNCHANGED <<documents, REDIS, COMPRESS_THRESHOLD, _CHUNK_SIZE, startup, pc, kv, DOC_STORE, now, written>>

BuildChunksFromRedis(doc_id, F) ==
    LET e == BuildEffect(doc_id, F)
        cs == BuildCalls(doc_id, F)
        kvNew == RedisCalls(kv, cs, Len(cs))
    IN  /\ F # {} => (REDIS /\ faults < MaxFaults /\ ~IdRejected(doc_id))
        /\ Faulty(F, e.ok)
        /\ kv' = kvNew
        /\ last' = Call("build", doc_id, TRUE, <<>>, e.out, e.calls, e.ok,
                        kvNew, DOC_STORE)
        /\ clean' = (clean /\ e.ok)
        /\ UNCHANGED <<documents, REDIS, COMPRESS_THRESHOLD, _CHUNK_SIZE, startup, pc, DOC_STORE, now, written>>

(* A second passes; Redis drops the keys whose time-to-live has run out. *)
Tick ==
    LET live == {k \in DOMAIN kv : kv[k].exp > now + 1}
        kvNew == [k \in live |-> kv[k]]
        expired(d) == \/ KeysOf(d) \cap (DOMAIN kv \ live) # {}
                      \/ /\ d \in DOMAIN DOC_STORE
                         /\ now + 1 - DOC_STORE[d].ts > DOC_TTL_SECONDS
    IN  /\ now < MaxTime
        /\ now' = now + 1
        /\ kv' = kvNew
        /\ last' = Call("tick", "", TRUE, <<>>, <<>>, 0, TRUE, kvNew, DOC_STORE)
        /\ written' = [d \in DocIds |->
                          [written[d] EXCEPT !.quiet = @ /\ ~expired(d)]]
        /\ clean' = (clean /\ \A d \in DocIds : ~expired(d))
        /\ UNCHANGED <<documents, REDIS, COMPRESS_THRESHOLD, _CHUNK_SIZE, startup, pc, DOC_STORE, faults>>

(* A key disappears out of band (eviction, another client's DEL). *)
Evict(key) ==
    /\ key \in DOMAIN kv
    /\ faults < MaxFaults
    /\ faults' = faults + 1
    /\ kv' = RedisDelete(kv, {key})
    /\ last' = Call("evict", "", TRUE, <<>>, <<>>, 0, TRUE,
                    RedisDelete(kv, {key}), DOC_STORE)
    /\ written' = [d \in DocIds |->
                      [written[d] EXCEPT !.quiet = @ /\ key \notin KeysOf(d)]]
    /\ clean' = FALSE
    /\ UNCHANGED <<documents, REDIS, COMPRESS_THRESHOLD, _CHUNK_SIZE, startup, pc, DOC_STORE, now>>

(* Serialised calls whose backend calls all succeed, and the passing of    *)
(* time.                                                                   *)
Next ==
    \/ \E d \in DocIds, t \in Texts, g \in BOOLEAN : PutDocText(d, t, g, {}, 0)
    \/ \E d \in DocIds : GetDocText(d, {})
    \/ \E d \in DocIds : ClearDoc(d, {})
    \/ RedisHealthy(TRUE)
    \/ \E d \in DocIds : BuildChunksFromRedis(d, {})
    \/ Tick

Spec == Init /\ [][Next]_vars

(* Serialised calls in which backend calls may raise, and keys that        *)
(* disappear out of band.                                                  *)
FaultNext ==
    \/ \E d \in DocIds, t \in FaultTexts, F \in FailureSets(2), a \in 0..MaxApplied :
          PutDocText(d, t, FALSE, F, a)
    \/ \E d \in DocIds, F \in FailureSets(MaxCalls) : GetDocText(d, F)
    \/ \E d \in DocIds, F \in FailureSets(MaxCalls) : ClearDoc(d, F)
    \/ \E p \in BOOLEAN : RedisHealthy(p)
    \/ \E d \in DocIds, F \in FailureSets(MaxCalls) : BuildChunksFromRedis(d, F)
    \/ \E k \in DOMAIN kv : Evict(k)

FaultSpec == Init /\ [][FaultNext]_vars

(* The values the environment can give COMPRESS_THRESHOLD: 0 is what       *)
(* "if COMPRESS_THRESHOLD and ..." tests for.                              *)
Thresholds == {0, ThresholdBytes}

(* Remote mode under either threshold; compression does not raise and      *)
(* every backend call succeeds.                                            *)
ConfigInit ==
    /\ startup = Connected
    /\ REDIS = InitRedis(startup)
    /\ COMPRESS_THRESHOLD \in Thresholds
    /\ _CHUNK_SIZE = ChunkBytes
    /\ pc = Idle
    /\ kv = EmptyMap
    /\ DOC_STORE = EmptyMap
    /\ now = 0
    /\ last = [op |-> "init", id |-> "", ret |-> TRUE, result |-> <<>>,
               out |-> <<>>, calls |-> 0, ok |-> TRUE,
               kvChanged |-> FALSE, dsChanged |-> FALSE, escaped |-> FALSE]
    /\ written = [d \in DocIds |-> NoPut]
    /\ clean = TRUE
    /\ faults = 0
    /\ documents = {}

ConfigNext ==
    \/ \E d \in DocIds, t \in Texts \cup {GzGrows} : PutDocText(d, t, FALSE, {}, 0)
    \/ \E d \in DocIds : GetDocText(d, {})
    \/ \E d \in DocIds : ClearDoc(d, {})

ConfigSpec == ConfigInit /\ [][ConfigNext]_vars

(* Every start the initialisation code distinguishes, then serialised      *)
(* calls in which backend calls may raise.                                 *)
StartupInit ==
    /\ startup \in AllStartups
    /\ REDIS = InitRedis(startup)
    /\ COMPRESS_THRESHOLD = ThresholdBytes
    /\ _CHUNK_SIZE = ChunkBytes
    /\ pc = Idle
    /\ kv = EmptyMap
    /\ DOC_STORE = EmptyMap
    /\ now = 0
    /\ last = [op |-> "init", id |-> "", ret |-> TRUE, result |-> <<>>,
               out |-> <<>>, calls |-> 0, ok |-> TRUE,
               kvChanged |-> FALSE, dsChanged |-> FALSE, escaped |-> FALSE]
    /\ written = [d \in DocIds |-> NoPut]
    /\ clean = TRUE
    /\ faults = 0
    /\ documents = {}

StartupSpec == StartupInit /\ [][FaultNext]_vars

(* A later call may meet another failure: the count of faults starts      *)
(* again.                                                                  *)
Recover ==
    /\ faults > 0
    /\ faults' = 0
    /\ UNCHANGED <<documents, REDIS, COMPRESS_THRESHOLD, _CHUNK_SIZE, startup, pc, kv,
                   DOC_STORE, now, last, written, clean>>

OutageTexts == {RawChunked, RawOther}

(* Serialised puts, gets and clears; backend calls of the puts and clears  *)
(* raise, in any number of calls.                                          *)
OutageNext ==
    \/ \E d \in DocIds, t \in OutageTexts, F \in FailureSets(2), a \in 0..MaxApplied :
          PutDocText(d, t, FALSE, F, a)
    \/ \E d \in DocIds : GetDocText(d, {})
    \/ \E d \in DocIds, F \in FailureSets(MaxCalls) : ClearDoc(d, F)
    \/ Recover

OutageSpec == Init /\ [][OutageNext]_vars

(* Identifiers that contain the separator of the key names. *)
IsolationIds == {"x", "x:meta", "x:chunk:0"}
IsolationTexts == {Small}

IsolationInit ==
    /\ startup = Connected
    /\ REDIS = InitRedis(startup)
    /\ COMPRESS_THRESHOLD = ThresholdBytes
    /\ _CHUNK_SIZE = ChunkBytes
    /\ pc = Idle
    /\ kv = EmptyMap
    /\ DOC_STORE = EmptyMap
    /\ now = 0
    /\ last = [op |-> "init", id |-> "", ret |-> TRUE, result |-> <<>>,
               out |-> <<>>, calls |-> 0, ok |-> TRUE,
               kvChanged |-> FALSE, dsChanged |-> FALSE, escaped |-> FALSE]
    /\ written = [d \in IsolationIds |-> NoPut]
    /\ clean = TRUE
    /\ faults = 0
    /\ documents = {}

(* Serialised calls on those identifiers; every backend call succeeds. *)
IsolationNext ==
    \/ \E d \in IsolationIds, t \in IsolationTexts : PutDocText(d, t, FALSE, {}, 0)
    \/ \E d \in IsolationIds : GetDocText(d, {})
    \/ \E d \in IsolationIds : ClearDoc(d, {})
    \/ \E d \in IsolationIds : BuildChunksFromRedis(d, {})

IsolationSpec == IsolationInit /\ [][IsolationNext]_vars

(* The values the environment gives CHUNK_SIZE from one start of the       *)
(* process to the next.                                                    *)
ChunkSizes == {ChunkBytes - 1, ChunkBytes}

ResizeInit ==
    /\ startup = Connected
    /\ REDIS = InitRedis(startup)
    /\ COMPRESS_THRESHOLD = ThresholdBytes
    /\ _CHUNK_SIZE \in ChunkSizes
    /\ pc = Idle
    /\ kv = EmptyMap
    /\ DOC_STORE = EmptyMap
    /\ now = 0
    /\ last = [op |-> "init", id |-> "", ret |-> TRUE, result |-> <<>>,
               out |-> <<>>, calls |-> 0, ok |-> TRUE,
               kvChanged |-> FALSE, dsChanged |-> FALSE, escaped |-> FALSE]
    /\ written = [d \in DocIds |-> NoPut]
    /\ clean = TRUE
    /\ faults = 0
    /\ documents = {}

(* The process starts again against the same Redis with CHUNK_SIZE = c:    *)
(* the module is initialised anew, the keys in Redis stay.                 *)
Restart(c) ==
    /\ c # _CHUNK_SIZE
    /\ _CHUNK_SIZE' = c
    /\ DOC_STORE' = EmptyMap
    /\ pc' = Idle
    /\ last' = Call("restart", "", TRUE, <<>>, <<>>, 0, TRUE, kv, EmptyMap)
    /\ UNCHANGED <<documents, REDIS, COMPRESS_THRESHOLD, startup, kv, now, written,
                   clean, faults>>

(* Remote mode with the chunk size changing between calls; every backend   *)
(* call succeeds.                                                          *)
ResizeNext ==
    \/ \E d \in DocIds, t \in Texts : PutDocText(d, t, FALSE, {}, 0)
    \/ \E d \in DocIds : GetDocText(d, {})
    \/ \E d \in DocIds : ClearDoc(d, {})
    \/ \E c \in ChunkSizes : Restart(c)

ResizeSpec == ResizeInit /\ [][ResizeNext]_vars

---------------------------------------------------------------------------
(* Concurrent calls.  The server runs several threads in one process and   *)
(* redis_client.py takes no lock, so a put_doc_text in thread "w" and a    *)
(* get_doc_text in thread "r" interleave at every backend call and every   *)
(* access of DOC_STORE.  pc[t].at is the statement thread t executes next. *)
(* An executing pipeline applies its queued commands in the order queued;  *)
(* the reader may be served between any two of them.  Every backend call   *)
(* succeeds and compression does not raise.  last, clean and faults record *)
(* serialised calls only.                                                  *)

RaceTexts == {Small, RawChunked, GzChunked}

(* Lines 112-135 and the test of line 138: up to the first backend call or *)
(* the write of DOC_STORE.                                                 *)
PutBegin(doc_id, text) ==
    LET raw_bytes == Utf8Encode(text)
        size == Len(raw_bytes)
        compressed == Compressed(size, FALSE)
        to_store == IF ShouldCompress(size) THEN _gzip_compress_bytes(raw_bytes)
                    ELSE raw_bytes
        form == IF ~REDIS THEN "fallback"
                ELSE IF FitsSingleKey(to_store) THEN "single" ELSE "chunked"
    IN  /\ pc["w"].at = "idle"
        /\ ~IdRejected(doc_id)
        /\ pc' = [pc EXCEPT !["w"] =
                     [at |-> CASE form = "fallback" -> "ds_write"
                               [] form = "single" -> "setex"
                               [] OTHER -> "execute",
                      id |-> doc_id, text |-> text,
                      payload |-> SinglePayload(to_store, compressed),
                      cmds |-> PipelineCommands(doc_id, to_store, size, compressed),
                      k |-> 0]]
        /\ written' = [written EXCEPT ![doc_id] =
                          [state |-> "put", text |-> text, ts |-> now,
                           ret |-> TRUE, ok |-> TRUE, fresh |-> Fresh(doc_id),
                           form |-> form, prevForm |-> written[doc_id].form,
                           quiet |-> TRUE, again |-> FALSE, againOk |-> FALSE,
                           gzipRaised |-> FALSE]]
        /\ UNCHANGED <<documents, REDIS, COMPRESS_THRESHOLD, _CHUNK_SIZE, startup, kv,
                       DOC_STORE, now, last, clean, faults>>

(* Line 141: the setex of the single key. *)
PutSetex ==
    LET p == pc["w"]
    IN  /\ p.at = "setex"
        /\ kv' = RedisSetex(kv, SingleKey(p.id), DOC_TTL_SECONDS, p.payload)
        /\ pc' = [pc EXCEPT !["w"].at = "delete"]
        /\ UNCHANGED <<documents, REDIS, COMPRESS_THRESHOLD, _CHUNK_SIZE, startup,
                       DOC_STORE, now, last, written, clean, faults>>

(* Line 145: the delete of the stale meta key. *)
PutDeleteMeta ==
    LET p == pc["w"]
    IN  /\ p.at = "delete"
        /\ kv' = RedisDelete(kv, {MetaKey(p.id)})
        /\ pc' = [pc EXCEPT !["w"].at = "return"]
        /\ UNCHANGED <<documents, REDIS, COMPRESS_THRESHOLD, _CHUNK_SIZE, startup,
                       DOC_STORE, now, last, written, clean, faults>>

(* Line 168: the next queued command of the executing pipeline. *)
PutExecute ==
    LET p == pc["w"]
        c == p.cmds[p.k + 1]
    IN  /\ p.at = "execute"
        /\ kv' = RedisSetex(kv, c.key, DOC_TTL_SECONDS, c.value)
        /\ pc' = [pc EXCEPT !["w"].k = p.k + 1,
                            !["w"].at = IF p.k + 1 = Len(p.cmds) THEN "return"
                                        ELSE "execute"]
        /\ UNCHANGED <<documents, REDIS, COMPRESS_THRESHOLD, _CHUNK_SIZE, startup,
                       DOC_STORE, now, last, written, clean, faults>>

(* Line 133: the write of DOC_STORE. *)
PutFallbackWrite ==
    LET p == pc["w"]
    IN  /\ p.at = "ds_write"
        /\ DOC_STORE' = MapSet(DOC_STORE, p.id, [ts |-> now, text |-> p.text])
        /\ pc' = [pc EXCEPT !["w"].at = "return"]
        /\ UNCHANGED <<documents, REDIS, COMPRESS_THRESHOLD, _CHUNK_SIZE, startup, kv,
                       now, last, written, clean, faults>>

(* return True *)
PutReturn ==
    /\ pc["w"].at = "return"
    /\ pc' = [pc EXCEPT !["w"] = [at |-> "idle"]]
    /\ UNCHANGED <<documents, REDIS, COMPRESS_THRESHOLD, _CHUNK_SIZE, startup, kv,
                   DOC_STORE, now, last, written, clean, faults>>

(* The reader with its Redis tier finished: result when it is non-empty   *)
(* (line 256), else on to DOC_STORE.                                       *)
AfterRemote(p, result) ==
    IF result # <<>> THEN [p EXCEPT !.at = "done", !.result = result]
    ELSE [p EXCEPT !.at = "ds_get"]

(* Lines 205-210: the joined chunks to text; "" when that raises. *)
Reassemble(gz_all, compressed) ==
    LET raw == IF compressed THEN _gzip_decompress_bytes(gz_all) ELSE gz_all
        text == IF raw = Fail THEN Fail ELSE Utf8Decode(raw)
    IN  IF text = Fail THEN <<>> ELSE text

(* Lines 250-252. *)
GetBegin(doc_id) ==
    /\ pc["r"].at = "idle"
    /\ ~IdRejected(doc_id)
    /\ pc' = [pc EXCEPT !["r"] =
                 [at |-> IF REDIS THEN "get" ELSE "ds_get", id |-> doc_id,
                  i |-> 0, n |-> 0, acc |-> <<>>, compressed |-> FALSE,
                  missing |-> FALSE, result |-> <<>>]]
    /\ UNCHANGED <<documents, REDIS, COMPRESS_THRESHOLD, _CHUNK_SIZE, startup, kv,
                   DOC_STORE, now, last, written, clean, faults>>

(* Line 254 and the single-key branch of _decode_redis_value. *)
GetSingle ==
    LET p == pc["r"]
        raw == RedisGet(kv, SingleKey(p.id))
    IN  /\ p.at = "get"
        /\ pc' = [pc EXCEPT !["r"] =
                     IF raw = None THEN [p EXCEPT !.at = "get_meta"]
                     ELSE AfterRemote(p, DecodeSingle(raw))]
        /\ UNCHANGED <<documents, REDIS, COMPRESS_THRESHOLD, _CHUNK_SIZE, startup, kv,
                       DOC_STORE, now, last, written, clean, faults>>

(* Lines 190-199: the read of the meta key. *)
GetMeta ==
    LET p == pc["r"]
        meta_raw == RedisGet(kv, MetaKey(p.id))
        meta == JsonLoads(meta_raw)
    IN  /\ p.at = "get_meta"
        /\ pc' = [pc EXCEPT !["r"] =
                     IF meta_raw = None \/ meta_raw = <<>> \/ ~JsonValid(meta_raw)
                     THEN [p EXCEPT !.at = "ds_get"]
                     ELSE IF meta.chunks = 0
                     THEN AfterRemote(p, Reassemble(<<>>, meta.compressed))
                     ELSE [p EXCEPT !.at = "get_chunk", !.n = meta.chunks,
                                    !.compressed = meta.compressed]]
        /\ UNCHANGED <<documents, REDIS, COMPRESS_THRESHOLD, _CHUNK_SIZE, startup, kv,
                       DOC_STORE, now, last, written, clean, faults>>

(* Lines 200-204: the read of chunk i; after the last one, lines 205-210. *)
GetChunk ==
    LET p == pc["r"]
        c == RedisGet(kv, ChunkKey(p.id, p.i))
    IN  /\ p.at = "get_chunk"
        /\ pc' = [pc EXCEPT !["r"] =
                     IF c = None
                     THEN [p EXCEPT !.at = "ds_get", !.missing = TRUE]
                     ELSE IF p.i + 1 = p.n
                     THEN AfterRemote([p EXCEPT !.acc = p.acc \o c, !.i = p.i + 1],
                                      Reassemble(p.acc \o c, p.compressed))
                     ELSE [p EXCEPT !.acc = p.acc \o c, !.i = p.i + 1]]
        /\ UNCHANGED <<documents, REDIS, COMPRESS_THRESHOLD, _CHUNK_SIZE, startup, kv,
                       DOC_STORE, now, last, written, clean, faults>>

(* Lines 261-264 and 267-268: the read of DOC_STORE and the test of the    *)
(* entry's age.                                                            *)
GetFallback ==
    LET p == pc["r"]
    IN  /\ p.at = "ds_get"
        /\ pc' = [pc EXCEPT !["r"] =
                     IF p.id \notin DOMAIN DOC_STORE
                     THEN [p EXCEPT !.at = "done", !.result = <<>>]
                     ELSE IF FallbackExpired(DOC_STORE[p.id].ts)
                     THEN [p EXCEPT !.at = "ds_pop"]
                     ELSE [p EXCEPT !.at = "done",
                                    !.result = DOC_STORE[p.id].text]]
        /\ UNCHANGED <<documents, REDIS, COMPRESS_THRESHOLD, _CHUNK_SIZE, startup, kv,
                       DOC_STORE, now, last, written, clean, faults>>

(* Lines 265-266: the removal of the expired entry. *)
GetPop ==
    LET p == pc["r"]
    IN  /\ p.at = "ds_pop"
        /\ DOC_STORE' = MapDel(DOC_STORE, {p.id})
        /\ pc' = [pc EXCEPT !["r"] = [p EXCEPT !.at = "done", !.result = <<>>]]
        /\ UNCHANGED <<documents, REDIS, COMPRESS_THRESHOLD, _CHUNK_SIZE, startup, kv,
                       now, last, written, clean, faults>>

(* The reader returns result. *)
GetReturn ==
    /\ pc["r"].at = "done"
    /\ pc' = [pc EXCEPT !["r"] = [at |-> "idle"]]
    /\ UNCHANGED <<documents, REDIS, COMPRESS_THRESHOLD, _CHUNK_SIZE, startup, kv,
                   DOC_STORE, now, last, written, clean, faults>>

(* The statements that read, write or remove an entry of DOC_STORE: line   *)
(* 133, lines 261-264 and line 265.                                       *)
FallbackAccess == {"ds_write", "ds_get", "ds_pop"}

RaceNext ==
    \/ \E d \in DocIds, t \in RaceTexts : PutBegin(d, t)
    \/ PutSetex
    \/ PutDeleteMeta
    \/ PutExecute
    \/ PutFallbackWrite
    \/ PutReturn
    \/ \E d \in DocIds : GetBegin(d)
    \/ GetSingle
    \/ GetMeta
    \/ GetChunk
    \/ GetFallback
    \/ GetPop
    \/ GetReturn
    \/ Tick

RaceSpec == Init /\ [][RaceNext]_vars

---------------------------------------------------------------------------
(* The upload route (app/routes.py) and handle_text_upload                 *)
(* (app/upload_flow.py) for a multipart upload.  The extractors return a   *)
(* text and do not raise; insert_document succeeds.                        *)

ALLOWED_EXT ==
    {"pdf", "docx", "png", "jpg", "jpeg", "webp", "bmp", "tiff", "txt", "csv", "md"}

UploadTexts == {Empty, Small, RawChunked}

(* The local pdf_bytes of upload() is assigned: only the pdf branch        *)
(* assigns it (line 88).                                                   *)
PdfBytesBound(ext) == ext = "pdf"

(* handle_text_upload(user_id, filename, text, pdf_bytes): put_doc_text,   *)
(* RuntimeError when it returned false, then insert_document.              *)
HandleTextUpload(doc_id, text, ext) ==
    LET e == PutEffect(doc_id, text, FALSE, {}, 0)
    IN  [kv |-> e.kv, ds |-> e.ds, put |-> e,
         raised |-> ~e.ret,
         rows |-> IF e.ret THEN documents \cup {[doc_id |-> doc_id, ext |-> ext]}
                  ELSE documents,
         calls |-> IF e.ret THEN <<"put_doc_text", "insert_document">>
                   ELSE <<"put_doc_text">>]

(* upload() for a file with an allowed extension; doc_id is the uuid4 of   *)
(* handle_text_upload, an identifier not in use.  Reading pdf_bytes at     *)
(* line 99 raises UnboundLocalError when no branch assigned it.            *)
Upload(ext, text, doc_id) ==
    LET h == HandleTextUpload(doc_id, text, ext)
        unbound == ~PdfBytesBound(ext)
        raised == unbound \/ h.raised
        kvNew == IF unbound THEN kv ELSE h.kv
        dsNew == IF unbound THEN DOC_STORE ELSE h.ds
    IN  /\ ext \in ALLOWED_EXT
        /\ ~IdRejected(doc_id)
        /\ Fresh(doc_id)
        /\ \A r \in documents : r.doc_id # doc_id
        /\ kv' = kvNew
        /\ DOC_STORE' = dsNew
        /\ documents' = IF unbound THEN documents ELSE h.rows
        /\ last' = [Call("upload", IF unbound THEN "" ELSE doc_id, ~raised,
                         <<>>, <<>>, h.put.calls, TRUE, kvNew, dsNew)
                       EXCEPT !.escaped = raised]
                    @@ [ext |-> ext, text |-> text,
                        made |-> IF unbound THEN <<>> ELSE h.calls]
        /\ written' = IF unbound THEN written
                      ELSE [written EXCEPT ![doc_id] =
                               [state |-> "put", text |-> text, ts |-> now,
                                ret |-> h.put.ret, ok |-> h.put.ok,
                                fresh |-> TRUE, form |-> h.put.form,
                                prevForm |-> written[doc_id].form,
                                quiet |-> TRUE, again |-> FALSE,
                                againOk |-> FALSE, gzipRaised |-> FALSE]]
        /\ UNCHANGED <<REDIS, COMPRESS_THRESHOLD, _CHUNK_SIZE, startup, pc,
                       now, clean, faults>>

(* Uploads, the reads of the pages that show the document, and time. *)
UploadNext ==
    \/ \E x \in ALLOWED_EXT, t \in UploadTexts, d \in DocIds : Upload(x, t, d)
    \/ \E d \in DocIds : GetDocText(d, {})
    \/ Tick

UploadSpec == Init /\ [][UploadNext]_vars

---------------------------------------------------------------------------
(* The probing loops, one iteration a step.  Thread "w" runs the loop of   *)
(* clear_doc (lines 287-293), entered when the meta record is there and    *)
(* the inner try block raised (here: the delete of the listed chunk keys   *)
(* raised); thread                                                         *)
(* "r" runs the loop of build_chunks_from_redis (lines 394-399), entered   *)
(* when neither the single key nor a meta record is found and chunk 0      *)
(* exists.  No other call runs while a loop runs.                          *)

ProbeTexts == {Small, RawChunked}

(* Mutant of NextIndex: the index is not advanced. *)
NextIndexStuck(i) == i

(* i += 1 (line 293), n_chunks += 1 (line 399). *)
NextIndex(i) == i + 1

(* Lines 276-286, then the handler of line 287: i = 0. *)
ClearProbeBegin(doc_id) ==
    LET noSingle == RedisDelete(kv, {SingleKey(doc_id)})
        meta_raw == RedisGet(noSingle, MetaKey(doc_id))
    IN  /\ pc = Idle
        /\ REDIS /\ ~IdRejected(doc_id)
        /\ meta_raw # None /\ meta_raw # <<>>
        /\ JsonValid(meta_raw) /\ JsonLoads(meta_raw).chunks > 0
        /\ kv' = noSingle
        /\ pc' = [pc EXCEPT !["w"] =
                     [at |-> "clear_probe", id |-> doc_id, i |-> 0,
                      first |-> Cardinality({n \in 0..MaxProbe :
                                   \A j \in 0..n : ChunkKey(doc_id, j) \in DOMAIN kv})]]
        /\ UNCHANGED <<documents, REDIS, COMPRESS_THRESHOLD, _CHUNK_SIZE, startup,
                       DOC_STORE, now, last, written, clean, faults>>

(* Lines 289-293: one iteration of the loop of clear_doc. *)
ClearProbeStep ==
    LET p == pc["w"]
        k == ChunkKey(p.id, p.i)
    IN  /\ p.at = "clear_probe"
        /\ kv' = RedisDelete(kv, {k})
        /\ pc' = [pc EXCEPT !["w"] =
                     IF ~RedisExists(kv, k) THEN [p EXCEPT !.at = "clear_meta"]
                     ELSE [p EXCEPT !.i = NextIndex(p.i)]]
        /\ UNCHANGED <<documents, REDIS, COMPRESS_THRESHOLD, _CHUNK_SIZE, startup,
                       DOC_STORE, now, last, written, clean, faults>>

(* Lines 294-304: the delete of the meta key, the pop, return success. *)
ClearProbeEnd ==
    LET p == pc["w"]
        kvNew == RedisDelete(kv, {MetaKey(p.id)})
        dsNew == PopFallback(DOC_STORE, p.id)
        w == written[p.id]
    IN  /\ p.at = "clear_meta"
        /\ kv' = kvNew
        /\ DOC_STORE' = dsNew
        /\ pc' = [pc EXCEPT !["w"] = [at |-> "idle"]]
        /\ last' = Call("clear", p.id, TRUE, <<>>, <<>>, p.i + 5, FALSE, kvNew, dsNew)
        /\ written' = [written EXCEPT ![p.id] =
                          [NoPut EXCEPT !.state = "cleared", !.ts = now,
                                        !.text = w.text, !.ret = TRUE,
                                        !.ok = FALSE, !.quiet = TRUE,
                                        !.again = (w.state = "cleared"),
                                        !.againOk = (w.state = "cleared" /\ w.ok)]]
        /\ clean' = FALSE
        /\ UNCHANGED <<documents, REDIS, COMPRESS_THRESHOLD, _CHUNK_SIZE, startup, now, faults>>

(* Lines 345-397: no single key, no meta record, chunk 0 exists:           *)
(* n_chunks = 0.                                                           *)
BuildProbeBegin(doc_id) ==
    LET meta_raw == RedisGet(kv, MetaKey(doc_id))
    IN  /\ pc = Idle
        /\ REDIS /\ ~IdRejected(doc_id)
        /\ RedisGet(kv, SingleKey(doc_id)) = None
        /\ (meta_raw = None \/ meta_raw = <<>>)
        /\ RedisExists(kv, ChunkKey(doc_id, 0))
        /\ pc' = [pc EXCEPT !["r"] =
                     [at |-> "build_probe", id |-> doc_id, n |-> 0,
                      first |-> Cardinality({n \in 0..MaxProbe :
                                   \A j \in 0..n : ChunkKey(doc_id, j) \in DOMAIN kv})]]
        /\ UNCHANGED <<documents, REDIS, COMPRESS_THRESHOLD, _CHUNK_SIZE, startup, kv,
                       DOC_STORE, now, last, written, clean, faults>>

(* Lines 398-399: one test of the while condition and, when it holds, one  *)
(* iteration.                                                              *)
BuildProbeStep ==
    LET p == pc["r"]
    IN  /\ p.at = "build_probe"
        /\ pc' = [pc EXCEPT !["r"] =
                     IF RedisExists(kv, ChunkKey(p.id, p.n))
                     THEN [p EXCEPT !.n = NextIndex(p.n)]
                     ELSE [p EXCEPT !.at = "build_entries"]]
        /\ UNCHANGED <<documents, REDIS, COMPRESS_THRESHOLD, _CHUNK_SIZE, startup, kv,
                       DOC_STORE, now, last, written, clean, faults>>

(* Lines 401-432: the chunk entries, return out. *)
BuildProbeEnd ==
    LET p == pc["r"]
    IN  /\ p.at = "build_entries"
        /\ pc' = [pc EXCEPT !["r"] = [at |-> "idle"]]
        /\ last' = Call("build", p.id, TRUE, <<>>,
                        [j \in 1..p.n |-> ChunkDescriptor(kv, p.id, j - 1)],
                        p.n + p.n + 4, TRUE, kv, DOC_STORE)
        /\ UNCHANGED <<documents, REDIS, COMPRESS_THRESHOLD, _CHUNK_SIZE, startup, kv,
                       DOC_STORE, now, written, clean, faults>>

ProbeNext ==
    \/ pc = Idle /\ \E d \in DocIds, t \in ProbeTexts : PutDocText(d, t, FALSE, {}, 0)
    \/ pc = Idle /\ \E d \in DocIds : ClearDoc(d, {})
    \/ \E d \in DocIds : ClearProbeBegin(d)
    \/ ClearProbeStep
    \/ ClearProbeEnd
    \/ \E d \in DocIds : BuildProbeBegin(d)
    \/ BuildProbeStep
    \/ BuildProbeEnd

ProbeSpec == Init /\ [][ProbeNext]_vars

(* A thread inside a loop keeps running. *)
ProbeLiveSpec ==
    /\ ProbeSpec
    /\ WF_vars(ClearProbeStep) /\ WF_vars(ClearProbeEnd)
    /\ WF_vars(BuildProbeStep) /\ WF_vars(BuildProbeEnd)

---------------------------------------------------------------------------
(* Properties.  RealIds are the identifiers put_doc_text accepts.          *)

RealIds == DocIds \ {""}

ChunkKeysPresent(doc_id) ==
    {i \in 0..MaxProbe : ChunkKey(doc_id, i) \in DOMAIN kv}

LastWriteWins ==
    \A d \in RealIds :
        (clean /\ last.op = "get" /\ last.id = d /\ written[d].state = "put")
        => last.result = written[d].text

(* C3: form exclusivity.  In remote mode, after a completed put_doc_text   *)
(* whose backend calls succeeded, exactly one of doc:{id} and              *)
(* doc:{id}:meta exists.                                                   *)
FormExclusivity ==
    \A d \in RealIds :
        (REDIS /\ last.op = "put" /\ last.id = d /\ last.ok)
        => (SingleKey(d) \in DOMAIN kv) # (MetaKey(d) \in DOMAIN kv)

(* C4: a chunked write followed by a single-key write of the same id:      *)
(* get_doc_text returns the new text and neither doc:{id}:meta nor any     *)
(* doc:{id}:chunk:{i} of the earlier write remains.                        *)
ChunkedThenSingle ==
    \A d \in RealIds :
        LET w == written[d]
        IN  (REDIS /\ clean /\ w.state = "put" /\ w.form = "single"
             /\ w.prevForm = "chunked")
            => /\ MetaKey(d) \notin DOMAIN kv
               /\ ChunkKeysPresent(d) = {}
               /\ (last.op = "get" /\ last.id = d) => last.result = w.text

(* C5: a put that reports success never loses its data.  Whenever          *)
(* put_doc_text(id, t) returned true in an execution in which its backend *)
(* writes failed and the text went to the in-process map, a                *)
(* get_doc_text(id) that follows (nothing expired or evicted, no clear in  *)
(* between, its own reads succeeding) returns t.                           *)
PutSuccessNeverLoses ==
    \A d \in RealIds :
        LET w == written[d]
        IN  (w.state = "put" /\ w.ret /\ ~w.ok /\ w.form = "fallback"
             /\ w.quiet
             /\ last.op = "get" /\ last.id = d /\ last.ok)
            => last.result = w.text

(* C6: missing chunk.  When the meta record of a chunked write is present  *)
(* and one of its chunk keys is absent, get_doc_text(id) returns the empty *)
(* string.                                                                 *)
MissingChunkYieldsEmpty ==
    \A d \in RealIds :
        (/\ REDIS /\ last.op = "get" /\ last.id = d /\ last.ok
         /\ written[d].state = "put" /\ written[d].form = "chunked"
         /\ MetaKey(d) \in DOMAIN kv
         /\ JsonValid(kv[MetaKey(d)].val)
         /\ \E i \in 0..(JsonLoads(kv[MetaKey(d)].val).chunks - 1) :
               ChunkKey(d, i) \notin DOMAIN kv)
        => last.result = <<>>

(* C7: clear_doc removes every trace.  After a clear_doc(id) whose backend *)
(* calls all succeeded, none of doc:{id}, doc:{id}:meta, doc:{id}:chunk:{i}*)
(* exists and id is not in the fallback map.                               *)
ClearRemovesEverything ==
    \A d \in RealIds :
        (last.op = "clear" /\ last.id = d /\ last.ok)
        => /\ KeysOf(d) \cap DOMAIN kv = {}
           /\ d \notin DOMAIN DOC_STORE

EmptyIdRejected ==
    /\ (last.id = "" /\ last.op \in {"put", "get", "clear", "build"})
       => /\ last.calls = 0
          /\ ~last.kvChanged
          /\ ~last.dsChanged
          /\ last.op = "put" => ~last.ret
          /\ last.op = "get" => last.result = <<>>
          /\ last.op = "clear" => ~last.ret
          /\ last.op = "build" => last.out = <<>>
    /\ (last.op = "put" /\ last.id # "") => last.ret

(* C9 witness: a rejected put, after a put whose backend write failed and  *)
(* that still returned true.                                               *)
EmptyIdRejectedWitness ==
    /\ last.op = "put" /\ last.id = "" /\ ~last.ret
    /\ written["d1"].state = "put" /\ ~written["d1"].ok /\ written["d1"].ret
    /\ REDIS

(* C10: fallback mode.  With REDIS None, put_doc_text stores (now, text)   *)
(* in the in-process map and returns true, get_doc_text returns the text   *)
(* until it expires or is cleared, clear_doc removes the entry, and no     *)
(* call touches the backend.                                               *)
FallbackMode ==
    ~REDIS =>
        /\ DOMAIN kv = {}
        /\ last.calls = 0
        /\ \A d \in RealIds :
              LET w == written[d]
              IN  /\ (last.op = "put" /\ last.id = d)
                     => /\ last.ret
                        /\ d \in DOMAIN DOC_STORE
                        /\ DOC_STORE[d] = [ts |-> now, text |-> w.text]
                  /\ (last.op = "get" /\ last.id = d /\ w.state = "put"
                      /\ now - w.ts <= DOC_TTL_SECONDS)
                     => last.result = w.text
                  /\ w.state = "cleared" => d \notin DOMAIN DOC_STORE

(* C10 witness: a text read from the map in its last second. *)
FallbackModeWitness ==
    /\ ~REDIS
    /\ last.op = "get" /\ last.id = "d1" /\ last.result = GzChunked
    /\ written["d1"].state = "put"
    /\ now - written["d1"].ts = DOC_TTL_SECONDS

---------------------------------------------------------------------------
(* What the most recent put_doc_text of doc_id, in the form it wrote, left *)
(* in Redis: the gzip stream of the text (marked, in a single key), or the *)
(* bytes of the text as they are.                                          *)

StoredChunks(doc_id) ==
    LET meta_raw == RedisGet(kv, MetaKey(doc_id))
    IN  IF meta_raw = None \/ ~JsonValid(meta_raw) THEN Fail
        ELSE JoinChunks(kv, doc_id, JsonLoads(meta_raw).chunks, {})

PutStoredCompressed(doc_id) ==
    LET w == written[doc_id]
        gz == _gzip_compress_bytes(Utf8Encode(w.text))
    IN  IF w.form = "single"
        THEN RedisGet(kv, SingleKey(doc_id)) = _MARKER_COMPRESSED \o gz
        ELSE /\ StoredChunks(doc_id) = gz
             /\ JsonLoads(kv[MetaKey(doc_id)].val).compressed

PutStoredRaw(doc_id) ==
    LET w == written[doc_id]
        raw_bytes == Utf8Encode(w.text)
    IN  IF w.form = "single"
        THEN RedisGet(kv, SingleKey(doc_id)) = raw_bytes
        ELSE /\ StoredChunks(doc_id) = raw_bytes
             /\ ~JsonLoads(kv[MetaKey(doc_id)].val).compressed

(* A put_doc_text of doc_id has just written to Redis. *)
JustPut(doc_id) ==
    /\ REDIS /\ last.op = "put" /\ last.id = doc_id /\ last.ok
    /\ written[doc_id].form \in {"single", "chunked"}

CeilDiv(a, b) == CHOOSE n \in 0..a : n * b >= a /\ (n - 1) * b < a

(* C12: chunk boundary.  With backend writes succeeding, a stored payload  *)
(* (the text's bytes, or their gzip stream) of at most _MAX_SINGLE_KEY     *)
(* bytes is written in single-key form, and a longer one in chunked form   *)
(* whose meta record has chunks = ceil(stored_bytes / _CHUNK_SIZE),        *)
(* stored_bytes = the payload length, orig_bytes = the UTF-8 length of the *)
(* text and compressed = whether the payload is the gzip stream.           *)
ChunkBoundary ==
    \A d \in RealIds :
        LET w == written[d]
            raw_bytes == Utf8Encode(w.text)
        IN  JustPut(d) =>
            \E c \in BOOLEAN :
                LET p == IF c THEN _gzip_compress_bytes(raw_bytes) ELSE raw_bytes
                IN  IF Len(p) <= _MAX_SINGLE_KEY
                    THEN /\ w.form = "single"
                         /\ RedisGet(kv, SingleKey(d))
                               = (IF c THEN _MARKER_COMPRESSED \o p ELSE p)
                    ELSE /\ w.form = "chunked"
                         /\ RedisGet(kv, MetaKey(d)) =
                               JsonDumps([chunks |-> CeilDiv(Len(p), _CHUNK_SIZE),
                                          orig_bytes |-> Len(raw_bytes),
                                          stored_bytes |-> Len(p),
                                          compressed |-> c])

(* C12 witness: a raw payload of _MAX_SINGLE_KEY + 1 bytes, chunked, after *)
(* one of exactly _MAX_SINGLE_KEY bytes was written to the single key.     *)
ChunkBoundaryWitness ==
    LET w == written["d1"]
    IN  /\ JustPut("d1") /\ w.form = "chunked" /\ w.prevForm = "single"
        /\ Len(Utf8Encode(w.text)) = _MAX_SINGLE_KEY + 1
        /\ Len(RedisGet(kv, SingleKey("d1"))) = _MAX_SINGLE_KEY
        /\ JsonLoads(RedisGet(kv, MetaKey("d1"))).chunks = 2

(* C13: chunk layout.  After a completed chunked put the chunk records     *)
(* doc:{id}:chunk:0 .. chunk:{n-1}, concatenated in index order, equal the *)
(* stored payload; every chunk except the last has exactly _CHUNK_SIZE     *)
(* bytes and the last has between 1 and _CHUNK_SIZE bytes.                 *)
ChunkLayout ==
    \A d \in RealIds :
        LET w == written[d]
            raw_bytes == Utf8Encode(w.text)
            meta == JsonLoads(RedisGet(kv, MetaKey(d)))
            n == meta.chunks
            chunk(i) == RedisGet(kv, ChunkKey(d, i))
            payload == IF meta.compressed THEN _gzip_compress_bytes(raw_bytes)
                       ELSE raw_bytes
        IN  (JustPut(d) /\ w.form = "chunked") =>
               /\ n >= 1
               /\ \A i \in 0..(n - 1) : chunk(i) # None
               /\ \A k \in 1..Len(payload) :
                     /\ (k - 1) \div _CHUNK_SIZE < n
                     /\ payload[k] = chunk((k - 1) \div _CHUNK_SIZE)[((k - 1) % _CHUNK_SIZE) + 1]
               /\ \A i \in 0..(n - 2) : Len(chunk(i)) = _CHUNK_SIZE
               /\ Len(chunk(n - 1)) \in 1.._CHUNK_SIZE
               /\ (n - 1) * _CHUNK_SIZE + Len(chunk(n - 1)) = Len(payload)

(* C13 witness: a payload of 2 * _CHUNK_SIZE + 1 bytes in three chunks,    *)
(* the last of one byte.                                                   *)
ChunkLayoutWitness ==
    /\ JustPut("d1") /\ written["d1"].form = "chunked"
    /\ JsonLoads(RedisGet(kv, MetaKey("d1"))).chunks = 3
    /\ Len(RedisGet(kv, ChunkKey("d1", 0))) = _CHUNK_SIZE
    /\ Len(RedisGet(kv, ChunkKey("d1", 2))) = 1

(* C14: form is chosen by size only.  In every execution of put_doc_text,  *)
(* also when a backend write raises, chunk and meta keys are written only  *)
(* for a stored payload longer than _MAX_SINGLE_KEY.                       *)
FormBySizeOnly ==
    \A d \in RealIds :
        (REDIS /\ last.op = "put" /\ last.id = d /\ written[d].form = "chunked")
        => /\ MetaKey(d) \in DOMAIN kv
           /\ JsonLoads(kv[MetaKey(d)].val).stored_bytes > _MAX_SINGLE_KEY

(* C15: marker consistency.  The value a put_doc_text stored under         *)
(* doc:{id} begins with the bytes gzip: if and only if it is the marker    *)
(* followed by the gzip stream of the text, for every text.                *)
MarkerConsistency ==
    \A d \in RealIds :
        LET w == written[d]
            val == RedisGet(kv, SingleKey(d))
        IN  (JustPut(d) /\ w.form = "single") =>
               (StartsWith(val, _MARKER_COMPRESSED)
                <=> val = _MARKER_COMPRESSED
                          \o _gzip_compress_bytes(Utf8Encode(w.text)))

(* C16: empty text is a stored value, not absence.  After                  *)
(* put_doc_text(id, "") succeeded in remote mode, in any reachable state   *)
(* (also with an older text for id in the fallback map), get_doc_text(id)  *)
(* returns the empty string.                                               *)
EmptyTextStored ==
    \A d \in RealIds :
        LET w == written[d]
        IN  (/\ REDIS /\ w.state = "put" /\ w.text = Empty /\ w.ok /\ w.quiet
             /\ last.op = "get" /\ last.id = d /\ last.ok)
            => last.result = <<>>

(* C17: read order of get_doc_text in remote mode.  The single-key record  *)
(* is read first; the meta key is read, and the chunks reassembled, only   *)
(* if the single-key record is absent; the fallback map is consulted only  *)
(* if both yield nothing; the first tier that yields a text gives the      *)
(* result.                                                                 *)
ReadOrder ==
    \A d \in RealIds :
        LET s == RedisGet(kv, SingleKey(d))
            single == IF s = None THEN <<>> ELSE DecodeSingle(s)
            chunked == IF s = None THEN DecodeChunked(kv, d, {}) ELSE <<>>
            fallback == IF d \in DOMAIN DOC_STORE THEN DOC_STORE[d].text ELSE <<>>
        IN  (REDIS /\ last.op = "get" /\ last.id = d /\ last.ok) =>
               /\ s # None => last.calls = 1
               /\ s = None => last.calls >= 2
               /\ last.result = IF single # <<>> THEN single
                                ELSE IF chunked # <<>> THEN chunked
                                ELSE fallback

(* C17 witness: with a single-key record and a complete chunked record     *)
(* both present and a different text in the fallback map, get_doc_text     *)
(* issues one backend read and returns the single-key text.                *)
ReadOrderWitness ==
    /\ REDIS /\ last.op = "get" /\ last.id = "d1" /\ last.ok /\ last.calls = 1
    /\ SingleKey("d1") \in DOMAIN kv
    /\ DecodeChunked(kv, "d1", {}) # <<>>
    /\ "d1" \in DOMAIN DOC_STORE
    /\ last.result = DecodeSingle(kv[SingleKey("d1")].val)
    /\ last.result # DecodeChunked(kv, "d1", {})
    /\ last.result # DOC_STORE["d1"].text

(* C18: lazy TTL in the fallback map.  get_doc_text(id) returns the text   *)
(* of the fallback entry while now - timestamp <= DOC_TTL_SECONDS and      *)
(* leaves the entry; when now - timestamp > DOC_TTL_SECONDS it returns the *)
(* empty string and removes the entry.                                     *)
LazyTtl ==
    \A d \in RealIds :
        LET w == written[d]
        IN  (~REDIS /\ last.op = "get" /\ last.id = d /\ w.state = "put") =>
               IF now - w.ts <= DOC_TTL_SECONDS
               THEN /\ last.result = w.text
                    /\ ~last.dsChanged
                    /\ d \in DOMAIN DOC_STORE
                    /\ DOC_STORE[d] = [ts |-> w.ts, text |-> w.text]
               ELSE /\ last.result = <<>>
                    /\ d \notin DOMAIN DOC_STORE

(* C18 witness: a get that found the entry expired and removed it. *)
LazyTtlWitness ==
    LET w == written["d1"]
    IN  /\ ~REDIS /\ last.op = "get" /\ last.id = "d1" /\ w.state = "put"
        /\ w.text = Small
        /\ now - w.ts > DOC_TTL_SECONDS
        /\ last.dsChanged /\ last.result = <<>>
        /\ "d1" \notin DOMAIN DOC_STORE

(* C19: every key put_doc_text writes to Redis (doc:{id}, doc:{id}:meta,   *)
(* every doc:{id}:chunk:{i}) expires DOC_TTL_SECONDS after the write, every*)
(* fallback entry carries the time of its write, and no key exists without *)
(* an expiry within DOC_TTL_SECONDS.                                       *)
TtlOnEveryWrite ==
    /\ \A k \in DOMAIN kv : kv[k].exp > now /\ kv[k].exp <= now + DOC_TTL_SECONDS
    /\ \A d \in DOMAIN DOC_STORE : DOC_STORE[d].ts <= now
    /\ \A d \in RealIds :
          LET w == written[d]
              expires(k) == k \in DOMAIN kv /\ kv[k].exp = now + DOC_TTL_SECONDS
          IN  (last.op = "put" /\ last.id = d) =>
                 /\ w.form = "single" => expires(SingleKey(d))
                 /\ w.form = "chunked" =>
                       /\ expires(MetaKey(d))
                       /\ \A i \in 0..(JsonLoads(kv[MetaKey(d)].val).chunks - 1) :
                             expires(ChunkKey(d, i))
                 /\ w.form = "fallback" =>
                       /\ d \in DOMAIN DOC_STORE
                       /\ DOC_STORE[d].ts = now

(* C19 witness: a chunked put at a later time than the start. *)
TtlOnEveryWriteWitness ==
    /\ REDIS /\ last.op = "put" /\ last.id = "d1" /\ now > 0
    /\ written["d1"].form = "chunked"
    /\ JsonLoads(kv[MetaKey("d1")].val).chunks = 2
    /\ kv[ChunkKey("d1", 1)].exp = now + DOC_TTL_SECONDS

(* C20: redis_healthy() returns true exactly when REDIS is set and the     *)
(* ping of this call succeeds with a truthy reply; in fallback mode it     *)
(* returns false and issues no ping; it changes nothing.                   *)
HealthIffPing ==
    last.op = "health" =>
       /\ last.ret = (REDIS /\ last.ok)
       /\ ~REDIS => (~last.ret /\ last.calls = 0)
       /\ REDIS => last.calls = 1
       /\ ~last.kvChanged /\ ~last.dsChanged

(* C20 witness: in remote mode, a ping that fails after a document was     *)
(* stored.                                                                 *)
HealthIffPingWitness ==
    /\ REDIS /\ last.op = "health" /\ ~last.ok /\ ~last.ret
    /\ written["d1"].state = "put" /\ written["d1"].ok

(* C21: backend selection is fixed at initialisation.  When the URL is     *)
(* empty or has an unsupported scheme, the redis package is missing, or    *)
(* the ping returns a falsy reply or raises, REDIS is None; and no call of *)
(* put_doc_text, get_doc_text, clear_doc, redis_healthy or                 *)
(* build_chunks_from_redis changes REDIS, in either direction.             *)
BackendFixed ==
    /\ [](( \/ startup.url = ""
            \/ startup.url \notin {"redis", "rediss"}
            \/ ~startup.lib
            \/ startup.ping # "ok") => ~REDIS)
    /\ [][REDIS' = REDIS /\ startup' = startup]_vars

(* C21 witness: after a start whose ping raised, calls have run, a failed  *)
(* health check the last of them, and the process is in fallback mode.     *)
BackendFixedWitness ==
    /\ startup = [url |-> "rediss", lib |-> TRUE, ping |-> "raises"]
    /\ ~REDIS
    /\ written["d1"].state = "put"
    /\ last.op = "health" /\ ~last.ret

CompressionFailureRaw ==
    \A d \in RealIds :
        LET w == written[d]
            stored == IF w.form = "single"
                      THEN DecodeSingle(RedisGet(kv, SingleKey(d)))
                      ELSE DecodeChunked(MapDel(kv, {SingleKey(d)}), d, {})
        IN  (REDIS /\ w.state = "put" /\ w.gzipRaised /\ w.ok) =>
               /\ w.ret
               /\ JustPut(d) => (PutStoredRaw(d) /\ stored = w.text)
               /\ (w.fresh /\ w.quiet /\ last.op = "get" /\ last.id = d)
                  => last.result = w.text

(* C24 witness: a text at the threshold read back after a put in which     *)
(* compression raised.                                                     *)
CompressionFailureRawWitness ==
    LET w == written["d1"]
    IN  /\ REDIS /\ w.state = "put" /\ w.gzipRaised /\ w.ok /\ w.fresh /\ w.quiet
        /\ Len(Utf8Encode(w.text)) = COMPRESS_THRESHOLD
        /\ last.op = "get" /\ last.id = "d1" /\ last.result = w.text
        /\ ~JsonLoads(kv[MetaKey("d1")].val).compressed

(* C25: the meta key is written last.  While the first put_doc_text to an  *)
(* identifier with no prior state is a chunked one and nothing has         *)
(* expired, a meta record in Redis names only chunks that are all present, *)
(* a get_doc_text interleaved with it never finds a chunk of a meta record *)
(* it has read missing, and it returns the empty string or the complete    *)
(* text.                                                                   *)
MetaWrittenLast ==
    \A d \in RealIds :
        LET w == written[d]
            r == pc["r"]
            meta_raw == RedisGet(kv, MetaKey(d))
        IN  (/\ w.state = "put" /\ w.form = "chunked" /\ w.fresh
             /\ w.prevForm = "none" /\ w.quiet) =>
               /\ meta_raw # None =>
                     /\ JsonValid(meta_raw)
                     /\ \A i \in 0..(JsonLoads(meta_raw).chunks - 1) :
                           ChunkKey(d, i) \in DOMAIN kv
               /\ (r.at # "idle" /\ r.id = d) =>
                     /\ ~r.missing
                     /\ r.at = "done" => r.result \in {<<>>, w.text}

(* C25 witness: the reader has read every chunk and holds the complete     *)
(* text while the chunked put that wrote it has not yet returned.          *)
MetaWrittenLastWitness ==
    LET w == written["d1"]
        r == pc["r"]
    IN  /\ w.state = "put" /\ w.form = "chunked" /\ w.fresh
        /\ w.prevForm = "none" /\ w.quiet
        /\ pc["w"].at = "return"
        /\ r.at = "done" /\ r.id = "d1" /\ r.n >= 2 /\ r.result = w.text

(* C27: fallback-map mutual exclusion.  No two threads are at a read, a    *)
(* write or a removal of DOC_STORE at the same time.                       *)
FallbackMutualExclusion ==
    ~(pc["w"].at \in FallbackAccess /\ pc["r"].at \in FallbackAccess)

(* C26: a failing chunk path falls back to the in-process map.  When the   *)
(* pipeline of a chunked put raises, put_doc_text returns true with        *)
(* (timestamp, text) stored for the identifier in DOC_STORE, whatever part *)
(* of the chunk set was written.                                           *)
ChunkFailureFallsBack ==
    \A d \in RealIds :
        LET w == written[d]
        IN  (/\ REDIS /\ last.op = "put" /\ last.id = d /\ ~last.ok
             /\ w.form = "fallback") =>
               /\ last.ret
               /\ d \in DOMAIN DOC_STORE
               /\ DOC_STORE[d] = [ts |-> now, text |-> w.text]

(* C26 witness: execute raised after the first chunk was written; the meta *)
(* record is absent and the text is in DOC_STORE.                          *)
ChunkFailureFallsBackWitness ==
    LET w == written["d1"]
    IN  /\ REDIS /\ last.op = "put" /\ last.id = "d1" /\ ~last.ok
        /\ w.form = "fallback" /\ w.text = RawChunked
        /\ ChunkKey("d1", 0) \in DOMAIN kv
        /\ MetaKey("d1") \notin DOMAIN kv
        /\ DOC_STORE["d1"].text = RawChunked

(* C28: build_chunks_from_redis is read-only.  Every call of it, for every *)
(* identifier, every stored state and every failure of its backend calls,  *)
(* leaves the keys of Redis with their values and times-to-live and the    *)
(* fallback map as they were, and issues get and exists calls only.        *)
BuildReadOnly ==
    [][\A d \in DocIds, F \in FailureSets(MaxCalls) :
          BuildChunksFromRedis(d, F) =>
             /\ kv' = kv
             /\ DOC_STORE' = DOC_STORE
             /\ \A j \in DOMAIN BuildCalls(d, F) :
                   BuildCalls(d, F)[j].op \in {"get", "exists"}]_vars

(* C28 witness: build_chunks_from_redis has described a chunked document   *)
(* that is still stored, and Redis and the fallback map are as before.     *)
BuildReadOnlyWitness ==
    /\ last.op = "build" /\ last.id = "d1" /\ Len(last.out) = 2
    /\ ~last.kvChanged /\ ~last.dsChanged
    /\ MetaKey("d1") \in DOMAIN kv
    /\ ChunkKeysPresent("d1") = {0, 1}

(* The number of consecutive chunk keys of doc_id present from index 0. *)
ConsecutiveChunks(doc_id) ==
    CHOOSE n \in 0..(MaxProbe + 1) :
        /\ \A i \in 0..(n - 1) : ChunkKey(doc_id, i) \in DOMAIN kv
        /\ (n <= MaxProbe => ChunkKey(doc_id, n) \notin DOMAIN kv)

(* C29: the shape of chunk metadata.  A build_chunks_from_redis(id) whose  *)
(* backend calls succeed returns one descriptor with chunk_index 0 and     *)
(* redis_key doc:{id} when the single key is present; otherwise            *)
(* descriptors with chunk_index 0, 1, .., n-1 in that order and redis_key  *)
(* doc:{id}:chunk:{i}, where n is the chunk count of the meta record or,   *)
(* without a meta record, the number of consecutive chunk keys present     *)
(* from index 0.  stored_bytes is the length of the value under the key.   *)
DescriptorShape ==
    \A d \in RealIds :
        LET out == last.out
            raw == RedisGet(kv, SingleKey(d))
            meta_raw == RedisGet(kv, MetaKey(d))
            n == IF meta_raw # None THEN JsonLoads(meta_raw).chunks
                 ELSE ConsecutiveChunks(d)
        IN  (REDIS /\ last.op = "build" /\ last.id = d /\ last.ok) =>
               IF raw # None
               THEN /\ Len(out) = 1
                    /\ out[1].chunk_index = 0
                    /\ out[1].redis_key = SingleKey(d)
                    /\ out[1].stored_bytes = Len(raw)
               ELSE /\ Len(out) = n
                    /\ \A j \in 1..Len(out) :
                          /\ out[j].chunk_index = j - 1
                          /\ out[j].redis_key = ChunkKey(d, j - 1)
                          /\ ChunkKey(d, j - 1) \in DOMAIN kv =>
                                out[j].stored_bytes = Len(kv[ChunkKey(d, j - 1)].val)

(* C29 witness: the meta record is gone and two chunk keys are present;    *)
(* the descriptors found by probing are those of chunk 0 and chunk 1.      *)
DescriptorShapeWitness ==
    /\ REDIS /\ last.op = "build" /\ last.id = "d1" /\ last.ok
    /\ SingleKey("d1") \notin DOMAIN kv
    /\ MetaKey("d1") \notin DOMAIN kv
    /\ ChunkKeysPresent("d1") = {0, 1}
    /\ Len(last.out) = 2
    /\ last.out[2].redis_key = ChunkKey("d1", 1)
    /\ last.out[2].stored_bytes = 2

(* C30: the reader is independent of the chunk size.  A text put in        *)
(* chunked form on an identifier with nothing stored is returned whole by  *)
(* get_doc_text whatever _CHUNK_SIZE is when it is read.                   *)
ChunkSizeIndependent ==
    \A d \in RealIds :
        LET w == written[d]
        IN  (/\ REDIS /\ w.state = "put" /\ w.ok /\ w.fresh /\ w.quiet
             /\ w.form = "chunked"
             /\ last.op = "get" /\ last.id = d /\ last.ok) =>
               last.result = w.text

(* C30 witness: the text is read back whole while the first chunk stored   *)
(* is of another length than the reader's _CHUNK_SIZE.                     *)
ChunkSizeIndependentWitness ==
    LET w == written["d1"]
    IN  /\ REDIS /\ w.state = "put" /\ w.ok /\ w.fresh /\ w.quiet
        /\ w.form = "chunked"
        /\ last.op = "get" /\ last.id = "d1" /\ last.result = w.text
        /\ ChunkKey("d1", 0) \in DOMAIN kv
        /\ Len(kv[ChunkKey("d1", 0)].val) # _CHUNK_SIZE

(* C31: the result of clear_doc and the removal of the fallback entry.     *)
(* For a non-empty identifier clear_doc returns false only when one of its *)
(* backend calls raised and true when none did (false when the delete of   *)
(* the single key or the read of the meta record raised), no error leaves  *)
(* it, and the identifier has no entry in DOC_STORE afterwards, also when  *)
(* the deletes in Redis failed.                                            *)
ClearResultAndFallback ==
    \A d \in RealIds :
        (last.op = "clear" /\ last.id = d) =>
           /\ ~last.ret => ~last.ok
           /\ last.ok => last.ret
           /\ (~last.ok /\ last.calls <= 2) => ~last.ret
           /\ ~last.escaped
           /\ d \notin DOMAIN DOC_STORE

(* C31 witness: the first delete of a clear_doc raised; it returned false, *)
(* left the keys in Redis and removed the entry of DOC_STORE.              *)
ClearResultAndFallbackWitness ==
    /\ REDIS /\ last.op = "clear" /\ last.id = "d1"
    /\ ~last.ok /\ ~last.ret /\ last.calls = 1
    /\ last.dsChanged /\ ~last.kvChanged
    /\ "d1" \notin DOMAIN DOC_STORE
    /\ KeysOf("d1") \cap DOMAIN kv # {}

(* C32: isolation between identifiers.  A put_doc_text or clear_doc on an  *)
(* identifier a leaves what get_doc_text(b) and build_chunks_from_redis(b) *)
(* return unchanged for every other identifier b, also when the            *)
(* identifiers contain ':'.                                                *)
IdentifierIsolation ==
    [][\A b \in IsolationIds :
          (last'.op \in {"put", "clear"} /\ last'.id # b) =>
             /\ GetEffect(b, {}).result' = GetEffect(b, {}).result
             /\ BuildEffect(b, {}).out' = BuildEffect(b, {}).out]_vars

(* C33: no fabricated text.  Under serialised calls in which the pipeline  *)
(* of a chunked put may fail part-way, get_doc_text returns the empty      *)
(* string or a text that was the argument of a put_doc_text, never a       *)
(* mixture of the chunks of two writes.                                    *)
NoFabricatedText ==
    \A d \in RealIds :
        (last.op = "get" /\ last.id = d) =>
           last.result \in {<<>>} \cup OutageTexts

(* C34: expiry eviction does not destroy fresh data.  With a get_doc_text  *)
(* and a put_doc_text of one identifier running in two threads, the entry  *)
(* of DOC_STORE that the get removes is an expired one, never the one the  *)
(* put has just written.                                                   *)
EvictionKeepsFresh ==
    [][GetPop =>
          (pc["r"].id \in DOMAIN DOC_STORE
             => FallbackExpired(DOC_STORE[pc["r"].id].ts))]_vars

(* C35: the frame of get_doc_text.  A get_doc_text(id) leaves every key of *)
(* Redis with its value and time-to-live as it was and issues get calls    *)
(* only; it changes DOC_STORE at most by removing the entry of id, and     *)
(* only when that entry is expired; a second get_doc_text(id) right after  *)
(* it returns the same text.                                               *)
GetFrame ==
    /\ [][\A d \in DocIds :
            (last'.op = "get" /\ last'.id = d /\ GetDocText(d, {})) =>
               /\ kv' = kv
               /\ \A j \in DOMAIN GetCalls(d, {}) : GetCalls(d, {})[j].op = "get"
               /\ \/ DOC_STORE' = DOC_STORE
                  \/ /\ d \in DOMAIN DOC_STORE
                     /\ FallbackExpired(DOC_STORE[d].ts)
                     /\ DOC_STORE' = MapDel(DOC_STORE, {d})]_vars
    /\ [](\A d \in DocIds :
            (last.op = "get" /\ last.id = d) =>
               /\ GetEffect(d, {}).result = last.result
               /\ GetEffect(d, {}).ds = DOC_STORE)

(* C35 witness: a get_doc_text has removed the expired entry of its        *)
(* identifier from DOC_STORE and returned the empty string.                *)
GetFrameWitness ==
    /\ ~REDIS /\ last.op = "get" /\ last.id = "d1" /\ last.dsChanged
    /\ last.result = <<>>
    /\ "d1" \notin DOMAIN DOC_STORE
    /\ written["d1"].state = "put"

(* C36: no metadata for a cleared document.  After a clear_doc(id) that    *)
(* returned true, with only successful puts before it,                     *)
(* build_chunks_from_redis(id) returns an empty list.                      *)
ClearedHasNoMetadata ==
    \A d \in RealIds :
        LET w == written[d]
        IN  (/\ REDIS /\ w.state = "cleared" /\ w.ret /\ w.ok
             /\ last.op = "build" /\ last.id = d /\ last.ok) =>
               last.out = <<>>

(* C37: no orphan chunk keys.  After a put_doc_text in remote mode whose   *)
(* backend calls all succeeded, the chunk keys of the identifier present   *)
(* in Redis are exactly 0..chunks-1 of the meta record when the put wrote  *)
(* chunked form, and none when it wrote single-key form.                   *)
NoOrphanChunks ==
    \A d \in RealIds :
        JustPut(d) =>
           IF written[d].form = "chunked"
           THEN /\ MetaKey(d) \in DOMAIN kv
                /\ ChunkKeysPresent(d)
                      = 0..(JsonLoads(kv[MetaKey(d)].val).chunks - 1)
           ELSE ChunkKeysPresent(d) = {}

(* C38: termination of sequential probing.  With no other call running,    *)
(* the probing loop of clear_doc and the probing loop of                   *)
(* build_chunks_from_redis each come to an end, and they leave the loop at *)
(* the first index whose chunk key is absent.                              *)
ProbingTerminates ==
    /\ (pc["w"].at = "clear_probe") ~> (pc["w"].at = "idle")
    /\ (pc["r"].at = "build_probe") ~> (pc["r"].at = "idle")
    /\ [](/\ pc["w"].at = "clear_meta" =>
               /\ pc["w"].i = pc["w"].first
               /\ ChunkKey(pc["w"].id, pc["w"].i) \notin DOMAIN kv
          /\ pc["r"].at = "build_entries" =>
               /\ pc["r"].n = pc["r"].first
               /\ ChunkKey(pc["r"].id, pc["r"].n) \notin DOMAIN kv)

(* C38 witness: the loop of build_chunks_from_redis has run twice and      *)
(* stopped at index 2, the first absent chunk key.                         *)
ProbingTerminatesWitness ==
    /\ pc["r"].at = "build_entries" /\ pc["r"].id = "d1" /\ pc["r"].n = 2
    /\ ChunkKeysPresent("d1") = {0, 1}

(* C39: an upload of every allowed file type reaches storage.  For a       *)
(* multipart upload with an allowed extension the handler raises nothing,  *)
(* calls put_doc_text and then insert_document, and the document has a row *)
(* and its text is stored.                                                 *)
UploadReachesStorage ==
    last.op = "upload" =>
       /\ ~last.escaped
       /\ last.made = <<"put_doc_text", "insert_document">>
       /\ \E r \in documents : r.doc_id = last.id /\ r.ext = last.ext
       /\ GetEffect(last.id, {}).result = last.text

====
